---- MODULE Spec2Model ----
(***************************************************************************)
(* A model of tnnf: Packet, PacketBuffer (the framing engine),             *)
(* TcpSocket::receive (the stream read loop) and Selector (the readiness   *)
(* multiplexer).  Bytes are 0..255, 16-bit fields wrap modulo 65536 and    *)
(* are sent most significant byte first.  Array index i of the C++ code is *)
(* index i + 1 of the corresponding sequence.                              *)
(***************************************************************************)
EXTENDS Integers, Sequences, FiniteSets, TLC

VARIABLES
    maxSize,                \* Packet::maxSize, the configured ceiling
    packet,                 \* the Packet built by the last constructor call
    reported,               \* error codes handed to the error callbacks by the last call
    mBuffer,                \* PacketBuffer::mBuffer
    mSize,                  \* PacketBuffer::mSize
    mCurrentlyStoredBytes,  \* PacketBuffer::mCurrentlyStoredBytes
    mStoredPackets,         \* PacketBuffer::mStoredPackets
    wire,                   \* bytes written by the peer and not yet read; for a UdpSocket
                            \* the datagrams sent and not yet read, each a sequence of bytes
    sentPackets,            \* every Packet the peer has sent, in order
    received,               \* every Packet getPacket() has returned, in order
    lastBuilt,              \* number of packets the last buildPackets call pushed
    pc,                     \* where the caller is: "buffer", "ctor", "selector" between direct
                            \* calls; "idle", "recv" outside and inside TcpSocket::receive;
                            \* "recvfrom(address)", "recvfrom(0)" inside the two
                            \* UdpSocket::receive; "misaligned" once buildPackets(-1) has
                            \* dropped the last stored byte, where the model stops;
                            \* "hung" inside a buildPackets loop that never exits; "ub" after
                            \* a write past the end of mBuffer
    mSockets,               \* Selector::mSockets, the descriptor of each tracked copy
    mFdSockets,             \* Selector::mFdSockets
    mSocketsMax,            \* Selector::mSocketsMax
    lastOp,                 \* the last constructor, Selector or handle call, its arguments
                            \* and what it returned
    mReadable,              \* Selector::mReadable: nullptr or the caller's vector
    mWritable,              \* Selector::mWritable
    mFaulty,                \* Selector::mFaulty
    mFdReadable,            \* Selector::mFdReadable
    mFdWritable,            \* Selector::mFdWritable
    mFdFaulty,              \* Selector::mFdFaulty
    handles,                \* number of Socket objects the caller holds, per descriptor
    closed,                 \* number of close() calls made so far, per descriptor
    littleEndian,           \* byte order of the host the library is built for
    writes,                 \* the OS writes issued by the send call in progress, in order
    bytesSent,              \* TcpSocket::send / UdpSocket::send local bytesSent
    bytesLeft,              \* TcpSocket::send / UdpSocket::send local bytesLeft
    calls                   \* for each entry of writes, the loop of send that issued it
                            \* and the address it was passed to sendto with

vars == <<maxSize, packet, reported, mBuffer, mSize,
          mCurrentlyStoredBytes, mStoredPackets, wire, sentPackets, received,
          lastBuilt, pc, mSockets, mFdSockets, mSocketsMax, lastOp,
          mReadable, mWritable, mFaulty, mFdReadable, mFdWritable,
          mFdFaulty, handles, closed, littleEndian, writes, bytesSent, bytesLeft,
          calls>>

packetVars == <<packet>>
bufferVars == <<mBuffer, mSize, mCurrentlyStoredBytes, mStoredPackets, wire,
                sentPackets, received, lastBuilt, pc>>
pollVars == <<mReadable, mWritable, mFaulty, mFdReadable, mFdWritable,
              mFdFaulty>>
ownerVars == <<handles, closed>>
selectorVars == <<mSockets, mFdSockets, mSocketsMax, lastOp, pollVars, ownerVars>>
sendVars == <<littleEndian, writes, bytesSent, bytesLeft, calls>>

(***************************************************************************)
(* Bounds of the model.                                                    *)
(***************************************************************************)
MaxPayload == 2     \* longest payload the peer sends
MaxPackets == 3     \* number of packets the peer sends
MaxFd == 3          \* descriptors are 1..MaxFd
MaxTracked == 3     \* number of sockets a Selector tracks at once
MaxPolled == 2      \* number of sockets opened and tracked where update() is called
MaxOwned == 2       \* number of sockets opened and tracked where handles are copied
MaxHandles == 2     \* number of Socket objects the caller holds for one descriptor
MaxRetries == 2     \* number of failed reads one receive call is followed through
MaxFramed == 1      \* sockets tracked at once while the vectors are set and unset

(***************************************************************************)
(* Program constants.                                                      *)
(***************************************************************************)
SizeofUint16 == 2
Uint16Mod == 65536
ByteMod == 256
DefaultMaxSize == 65535
EMPTY_PACKET_TYPE == 65535
ERROR_PACKET_TOO_BIG == 200
ERROR_PACKETBUFFER_TOO_SMALL == 250
ERROR_SOCKET_RECEIVE == 117
ERROR_SOCKET_HANGUP == 118
Uninit == -1        \* a byte of new char[n] that was never written
SizeMax == 2147483647   \* stands for SIZE_MAX, 2^64 - 1: larger than every buffer

HeaderSize == 2 * SizeofUint16

Min(a, b) == IF a < b THEN a ELSE b

RECURSIVE SetMax(_)
SetMax(S) ==
    IF S = {} THEN 0
    ELSE LET x == CHOOSE y \in S : TRUE
             m == SetMax(S \ {x})
         IN IF x > m THEN x ELSE m

Range(s) == {s[i] : i \in 1..Len(s)}

\* The values a socket descriptor takes.
Fds == 0..MaxFd

\* A std::vector<Socket*>* of the caller: nullptr, or a vector of Socket*.
\* The Socket* of a tracked copy is written as the position the copy has in
\* mSockets now: when remove erases a copy, the pointers to the copies behind
\* it are renumbered with them and the pointers to the erased copy become
\* Freed.  Foreign is the address of a Socket of the caller's, which the
\* Selector never allocated.
Foreign == 0
Freed == -1

nullptr == [null |-> TRUE, v |-> <<>>]

Vector(s) == [null |-> FALSE, v |-> s]

(***************************************************************************)
(* Packet                                                                  *)
(***************************************************************************)
EmptyPacket == [mType |-> EMPTY_PACKET_TYPE, mSize |-> HeaderSize, mData |-> <<>>]

\* data.size() > maxSize - 2 * sizeof(uint16_t): the right-hand side is a
\* size_t, so for maxSize < 4 it wraps to 2^64 - (4 - maxSize), which no
\* string length exceeds.
\* The size test against the ceiling itself, as the constructor's comment words
\* it ("bigger than Packet::maxSize").
TooBigThanMaxSize(data) == Len(data) > maxSize

\* The size test with >= in place of >.
TooBigFromCeiling(data) ==
    IF maxSize >= HeaderSize THEN Len(data) >= maxSize - HeaderSize ELSE FALSE

TooBig(data) ==
    IF maxSize >= HeaderSize THEN Len(data) > maxSize - HeaderSize ELSE FALSE

\* A constructor without the test for EMPTY_PACKET_TYPE: the data is kept
\* whatever the type.
PacketKeepsData(type, data) ==
    IF TooBig(data) THEN EmptyPacket
    ELSE [mType |-> type,
          mSize |-> (Len(data) + HeaderSize) % Uint16Mod,
          mData |-> data]

Packet(type, data) ==
    IF type = EMPTY_PACKET_TYPE THEN EmptyPacket
    ELSE IF TooBig(data) THEN EmptyPacket
    ELSE [mType |-> type,
          mSize |-> (Len(data) + HeaderSize) % Uint16Mod,
          mData |-> data]

\* A size test made before the test of the type.
PacketReportsAnyType(type, data) ==
    IF TooBig(data) THEN <<ERROR_PACKET_TOO_BIG>> ELSE <<>>

PacketReports(type, data) ==
    IF type # EMPTY_PACKET_TYPE /\ TooBig(data)
    THEN <<ERROR_PACKET_TOO_BIG>>
    ELSE <<>>

(***************************************************************************)
(* Wire format                                                             *)
(***************************************************************************)
Htons(x) == <<x \div ByteMod, x % ByteMod>>

Ntohs(hi, lo) == hi * ByteMod + lo

Encode(p) == Htons(p.mSize) \o Htons(p.mType) \o p.mData

RECURSIVE EncodeAll(_)
EncodeAll(ps) ==
    IF ps = <<>> THEN <<>> ELSE Encode(Head(ps)) \o EncodeAll(Tail(ps))

(***************************************************************************)
(* PacketBuffer                                                            *)
(***************************************************************************)
PacketBuffer(size) ==
    IF size >= maxSize
    THEN [mBuffer |-> [i \in 1..size |-> Uninit], mSize |-> size,
          mCurrentlyStoredBytes |-> 0, mStoredPackets |-> <<>>]
    ELSE [mBuffer |-> <<>>, mSize |-> 0,
          mCurrentlyStoredBytes |-> 0, mStoredPackets |-> <<>>]

PacketBufferReports(size) == <<>>

\* A shrink that clears the consumed packet but leaves the tail where it was.
ShrinkInPlace(buf, packetSize, stored) ==
    [i \in 1..Len(buf) |-> IF i <= packetSize THEN 0 ELSE buf[i]]

\* A shrink whose loop stops one byte early: the last stored byte is lost.
ShrinkAllButLast(buf, packetSize, stored) ==
    [i \in 1..Len(buf) |->
        IF i < stored - packetSize THEN buf[i + packetSize]
        ELSE IF i <= stored THEN 0
        ELSE buf[i]]

\* for(uint16_t i = packetSize; i < stored; i++) mBuffer[i - packetSize] = mBuffer[i];
\* then memset(&mBuffer[stored - packetSize], 0, packetSize).  The loop index
\* is 16 bits wide; buildPackets runs here on buffers of fewer than 65536 bytes.
Shrink(buf, packetSize, stored) ==
    [i \in 1..Len(buf) |->
        IF i <= stored - packetSize THEN buf[i + packetSize]
        ELSE IF i <= stored THEN 0
        ELSE buf[i]]

\* A payload loop that starts one byte early.
PayloadOfFromKind(buf, packetSize) ==
    [i \in 1..(IF packetSize > HeaderSize THEN packetSize - HeaderSize ELSE 0)
        |-> buf[HeaderSize + i - 1]]

\* The payload loop: for(i = 4; i < packetSize; i++) ss << mBuffer[i]
PayloadOf(buf, packetSize) ==
    [i \in 1..(IF packetSize > HeaderSize THEN packetSize - HeaderSize ELSE 0)
        |-> buf[HeaderSize + i]]

\* buildPackets with an if in place of the while: one packet per call at most.
BuildOnce(b) ==
    IF b.mCurrentlyStoredBytes < SizeofUint16 THEN b
    ELSE LET packetSize == Ntohs(b.mBuffer[1], b.mBuffer[2]) IN
         IF b.mCurrentlyStoredBytes < packetSize THEN b
         ELSE LET data == PayloadOf(b.mBuffer, packetSize)
                  type == Ntohs(b.mBuffer[SizeofUint16 + 1], b.mBuffer[SizeofUint16 + 2])
              IN [mBuffer |-> Shrink(b.mBuffer, packetSize, b.mCurrentlyStoredBytes),
                  mCurrentlyStoredBytes |-> b.mCurrentlyStoredBytes - packetSize,
                  mStoredPackets |-> Append(b.mStoredPackets, Packet(type, data)),
                  reports |-> b.reports \o PacketReports(type, data),
                  hung |-> FALSE]

\* The while loop of buildPackets, on b = [mBuffer, mCurrentlyStoredBytes,
\* mStoredPackets, reports, hung].  A declared size of 0 is extracted without
\* consuming anything, so the loop never exits: hung.
RECURSIVE BuildLoop(_)
BuildLoop(b) ==
    IF b.mCurrentlyStoredBytes < SizeofUint16 THEN b
    ELSE LET packetSize == Ntohs(b.mBuffer[1], b.mBuffer[2]) IN
         IF b.mCurrentlyStoredBytes < packetSize THEN b
         ELSE IF packetSize = 0 THEN [b EXCEPT !.hung = TRUE]
         ELSE LET data == PayloadOf(b.mBuffer, packetSize)
                  type == Ntohs(b.mBuffer[SizeofUint16 + 1], b.mBuffer[SizeofUint16 + 2])
              IN BuildLoop(
                   [mBuffer |-> Shrink(b.mBuffer, packetSize, b.mCurrentlyStoredBytes),
                    mCurrentlyStoredBytes |-> b.mCurrentlyStoredBytes - packetSize,
                    mStoredPackets |-> Append(b.mStoredPackets, Packet(type, data)),
                    reports |-> b.reports \o PacketReports(type, data),
                    hung |-> FALSE])

buildPackets(buf, stored, queue, receivedBytes) ==
    BuildLoop([mBuffer |-> buf,
               mCurrentlyStoredBytes |-> stored + receivedBytes,
               mStoredPackets |-> queue,
               reports |-> <<>>,
               hung |-> FALSE])

\* What recv()/the caller does before buildPackets: n bytes land at offset
\* mCurrentlyStoredBytes.
WriteAt(buf, offset, bytes) ==
    [i \in 1..Len(buf) |->
        IF i > offset /\ i <= offset + Len(bytes) THEN bytes[i - offset] ELSE buf[i]]

(***************************************************************************)
(* The peer: well-formed packets, sent whole by TcpSocket::send            *)
(***************************************************************************)
\* One packet per payload length 0..MaxPayload.  Payloads of even length look
\* like length fields of 4 (0, 4, 0, ...) and go with a type whose two bytes
\* differ; payloads of odd length hold distinct bytes and go with the largest
\* valid type.
Payload(n) ==
    [i \in 1..n |->
        IF n % 2 = 0 THEN (IF i % 2 = 1 THEN 0 ELSE HeaderSize)
        ELSE (i * 85) % ByteMod]

TypeFor(n) == IF n % 2 = 0 THEN ByteMod + 2 ELSE EMPTY_PACKET_TYPE - 1

Messages == {Packet(TypeFor(n), Payload(n)) : n \in 0..MaxPayload}

send(p) ==
    /\ Len(sentPackets) < MaxPackets
    /\ wire' = wire \o Encode(p)
    /\ sentPackets' = Append(sentPackets, p)

(***************************************************************************)
(* The framing buffer used directly: write, buildPackets, getPacket        *)
(***************************************************************************)
BufferInit(size) ==
    LET b == PacketBuffer(size) IN
    /\ mBuffer = b.mBuffer
    /\ mSize = b.mSize
    /\ mCurrentlyStoredBytes = b.mCurrentlyStoredBytes
    /\ mStoredPackets = b.mStoredPackets
    /\ wire = <<>>
    /\ sentPackets = <<>>
    /\ received = <<>>
    /\ lastBuilt = 0

PacketIdle ==
    /\ packet = EmptyPacket
    /\ reported = <<>>

\* Selector(readable, writable, faulty): nothing tracked, the four fd_sets
\* zeroed, each vector pointer as given.
Selector(readable, writable, faulty) ==
    /\ mSockets = <<>>
    /\ mFdSockets = {}
    /\ mFdReadable = {}
    /\ mFdWritable = {}
    /\ mFdFaulty = {}
    /\ mSocketsMax = 0
    /\ mReadable = readable
    /\ mWritable = writable
    /\ mFaulty = faulty

\* No send call in progress.
SendIdle ==
    /\ littleEndian = TRUE
    /\ writes = <<>>
    /\ bytesSent = 0
    /\ bytesLeft = 0
    /\ calls = <<>>

\* A Selector without vectors, no socket open, nothing being sent.
SelectorInit ==
    /\ Selector(nullptr, nullptr, nullptr)
    /\ lastOp = [op |-> "none", fd |-> 0]
    /\ handles = [fd \in Fds |-> 0]
    /\ closed = [fd \in Fds |-> 0]
    /\ SendIdle

Init ==
    /\ maxSize = MaxPayload + HeaderSize
    /\ \E size \in {maxSize, 2 * maxSize} : BufferInit(size)
    /\ pc = "buffer"
    /\ PacketIdle
    /\ SelectorInit

PeerSend ==
    /\ \E p \in Messages : send(p)
    /\ UNCHANGED <<maxSize, sendVars, packetVars, reported, mBuffer, mSize,
                   mCurrentlyStoredBytes, mStoredPackets, received, lastBuilt, pc,
                   selectorVars>>

\* The caller writes n bytes of the stream at offset getCurrentSize(), never
\* past getSize(), and calls buildPackets(n).  A call whose loop never exits
\* leaves the caller stuck in it (pc = "hung").
Ingest ==
    /\ pc = "buffer"
    /\ \E n \in 1..Min(Len(wire), mSize - mCurrentlyStoredBytes) :
         LET b == buildPackets(WriteAt(mBuffer, mCurrentlyStoredBytes, SubSeq(wire, 1, n)),
                               mCurrentlyStoredBytes, mStoredPackets, n)
         IN /\ pc' = IF b.hung THEN "hung" ELSE pc
            /\ mBuffer' = b.mBuffer
            /\ mCurrentlyStoredBytes' = b.mCurrentlyStoredBytes
            /\ mStoredPackets' = b.mStoredPackets
            /\ reported' = b.reports
            /\ lastBuilt' = Len(b.mStoredPackets) - Len(mStoredPackets)
            /\ wire' = SubSeq(wire, n + 1, Len(wire))
    /\ UNCHANGED <<maxSize, sendVars, packetVars, mSize, sentPackets, received, selectorVars>>

\* A getPacket that takes the newest packet.
getPacketBack(queue) ==
    [packet |-> queue[Len(queue)], mStoredPackets |-> SubSeq(queue, 1, Len(queue) - 1)]

\* Packet packet = mStoredPackets.front(); mStoredPackets.pop(); return packet;
getPacket(queue) == [packet |-> Head(queue), mStoredPackets |-> Tail(queue)]

GetPacket ==
    /\ mStoredPackets # <<>>
    /\ pc \in {"buffer", "idle"}
    /\ received' = Append(received, getPacket(mStoredPackets).packet)
    /\ mStoredPackets' = getPacket(mStoredPackets).mStoredPackets
    /\ UNCHANGED <<maxSize, sendVars, packetVars, reported, mBuffer, mSize,
                   mCurrentlyStoredBytes, wire, sentPackets, lastBuilt, pc, selectorVars>>

Next == PeerSend \/ Ingest \/ GetPacket

Spec == Init /\ [][Next]_vars

(***************************************************************************)
(* Framing properties, under Spec                                          *)
(***************************************************************************)
\* Number of stream bytes passed to buildPackets so far.
Fed == Len(EncodeAll(sentPackets)) - Len(wire)

\* Offset in the stream at which the k-th packet ends.
EndOf(k) == Len(EncodeAll(SubSeq(sentPackets, 1, k)))

\* Number of packets whose last byte has been passed to buildPackets.
Completed == Cardinality({k \in 1..Len(sentPackets) : EndOf(k) <= Fed})

\* Every packet built so far, oldest first.
Extracted == received \o mStoredPackets

\* C1: framing round trip.  Whatever the chunking, no packet is built before
\* the last byte of the first packet m of the stream has been fed, and once
\* exactly the bytes of m have been fed exactly one packet has been built, it
\* equals m in type, data and size, and the buffer holds no byte.
FramingRoundTrip ==
    sentPackets # <<>> =>
        LET m == sentPackets[1] IN
        /\ m.mType # EMPTY_PACKET_TYPE
        /\ Len(m.mData) <= maxSize - HeaderSize
        /\ Fed < Len(Encode(m)) => Extracted = <<>>
        /\ Fed = Len(Encode(m)) => Extracted = <<m>> /\ mCurrentlyStoredBytes = 0

RoundTripOfLargestPacket ==
    /\ Len(sentPackets) = 1
    /\ Len(sentPackets[1].mData) = maxSize - HeaderSize
    /\ wire = <<>>
    /\ received = sentPackets
    /\ mCurrentlyStoredBytes = 0

\* The bytes the buffer retains hold no complete packet.
NoCompleteRetained ==
    \/ mCurrentlyStoredBytes < HeaderSize
    \/ mCurrentlyStoredBytes < Ntohs(mBuffer[1], mBuffer[2])

\* C2: multi-message batching.  When buildPackets returns, every packet whose
\* last byte has been fed has been built, in stream order, however many of them
\* the last call completed, and the retained bytes hold no complete packet.
MultiMessageBatching ==
    /\ Extracted = SubSeq(sentPackets, 1, Completed)
    /\ NoCompleteRetained

ThreeBuiltByOneCall ==
    /\ lastBuilt >= 3
    /\ Len(mStoredPackets) >= 3
    /\ received = <<>>

\* C3: partial-tail retention.  Once the first packet m1 and 3 bytes of the
\* second packet m2 have been fed, m1 is the only packet built and those 3 bytes
\* are retained at offsets 0..2; once the rest of m2 has been fed, m2 is the
\* second packet built.
PartialTailRetention ==
    Len(sentPackets) >= 2 =>
        LET m1 == sentPackets[1]
            m2 == sentPackets[2]
        IN /\ Fed = Len(Encode(m1)) + 3 =>
                /\ Extracted = <<m1>>
                /\ mCurrentlyStoredBytes = 3
                /\ SubSeq(mBuffer, 1, 3) = SubSeq(Encode(m2), 1, 3)
           /\ Fed = Len(Encode(m1)) + Len(Encode(m2)) =>
                /\ Extracted = <<m1, m2>>
                /\ mCurrentlyStoredBytes = 0

ThreeBytesOfSecondRetained ==
    /\ Len(sentPackets) >= 2
    /\ Fed = Len(Encode(sentPackets[1])) + 3
    /\ mCurrentlyStoredBytes = 3
    /\ mStoredPackets = <<sentPackets[1]>>

\* C4: FIFO ordering.  The packets returned by getPacket, followed by the
\* pending ones, are the packets of the stream in stream order; a getPacket
\* call returns the oldest pending packet and removes exactly that one.
FifoOrder ==
    /\ [](Extracted = SubSeq(sentPackets, 1, Len(Extracted)))
    /\ [][Len(received') # Len(received) =>
            /\ received' = Append(received, Head(mStoredPackets))
            /\ mStoredPackets' = Tail(mStoredPackets)
            /\ Len(mStoredPackets') = Len(mStoredPackets) - 1]_vars

TwoReturnedOnePending ==
    /\ Len(received) = 2
    /\ received[1] # received[2]
    /\ mStoredPackets # <<>>
    /\ mStoredPackets[1] # received[2]

\* C24: byte conservation.  For a stream of well-formed packets fed in any
\* chunking, with getPacket calls in between, after each buildPackets call the
\* encodings of the packets built so far, followed by the bytes the buffer
\* holds at offsets 0 .. getCurrentSize() - 1, are the bytes fed so far: none
\* lost, repeated or moved by the shrink.
ByteConservation ==
    EncodeAll(Extracted) \o SubSeq(mBuffer, 1, mCurrentlyStoredBytes)
        = SubSeq(EncodeAll(sentPackets), 1, Fed)

\* One call has built a packet and shifted a tail of three bytes or more
\* down, after an earlier packet was taken out and with bytes still to come.
TailShiftedAfterDequeue ==
    /\ received # <<>>
    /\ lastBuilt >= 1
    /\ mStoredPackets # <<>>
    /\ mCurrentlyStoredBytes >= 3
    /\ Len(wire) >= 1

(***************************************************************************)
(* Constructors: one Packet or PacketBuffer is constructed at a time,      *)
(* under every kind of ceiling Packet::maxSize can be set to               *)
(***************************************************************************)
Ceilings ==
    {0, HeaderSize - 1, HeaderSize, HeaderSize + MaxPayload, DefaultMaxSize}

Types == {0, ByteMod + 2, EMPTY_PACKET_TYPE - 1, EMPTY_PACKET_TYPE}

\* Payload lengths around the ceiling and around the point where size + 4
\* leaves 16 bits.
Lengths ==
    {n \in {0, 1, maxSize - HeaderSize - 1, maxSize - HeaderSize,
            maxSize - HeaderSize + 1, maxSize - HeaderSize + 2} : n >= 0}
        \cup {Uint16Mod - HeaderSize - 1, Uint16Mod - HeaderSize, Uint16Mod - 1}

Sizes == {n \in {0, 1, maxSize - 1, maxSize, maxSize + 1, 2 * maxSize} : n >= 0}

NoBuffer ==
    /\ mBuffer = <<>>
    /\ mSize = 0
    /\ mCurrentlyStoredBytes = 0
    /\ mStoredPackets = <<>>
    /\ wire = <<>>
    /\ sentPackets = <<>>
    /\ received = <<>>
    /\ lastBuilt = 0

\* The buffer of an earlier call is gone when the next object is constructed.
DropBuffer ==
    /\ mBuffer' = <<>>
    /\ mSize' = 0
    /\ mCurrentlyStoredBytes' = 0
    /\ mStoredPackets' = <<>>
    /\ UNCHANGED <<wire, sentPackets, received, lastBuilt>>

CtorInit ==
    /\ maxSize \in Ceilings
    /\ NoBuffer
    /\ pc = "ctor"
    /\ PacketIdle
    /\ SelectorInit

\* Packet()
DefaultPacket ==
    /\ packet' = EmptyPacket
    /\ reported' = <<>>
    /\ lastOp' = [op |-> "Packet()"]
    /\ DropBuffer
    /\ UNCHANGED <<maxSize, sendVars, pc, mSockets, mFdSockets, mSocketsMax, pollVars,
                   ownerVars>>

\* Packet(type, data)
NewPacket ==
    /\ \E type \in Types, n \in Lengths :
         LET data == [i \in 1..n |-> 0] IN
         /\ packet' = Packet(type, data)
         /\ reported' = PacketReports(type, data)
         /\ lastOp' = [op |-> "Packet", type |-> type, len |-> n]
    /\ DropBuffer
    /\ UNCHANGED <<maxSize, sendVars, pc, mSockets, mFdSockets, mSocketsMax, pollVars,
                   ownerVars>>

\* PacketBuffer(size)
NewPacketBuffer ==
    /\ \E size \in Sizes :
         LET b == PacketBuffer(size) IN
         /\ mBuffer' = b.mBuffer
         /\ mSize' = b.mSize
         /\ mCurrentlyStoredBytes' = b.mCurrentlyStoredBytes
         /\ mStoredPackets' = b.mStoredPackets
         /\ reported' = PacketBufferReports(size)
         /\ lastOp' = [op |-> "PacketBuffer", size |-> size]
    /\ packet' = EmptyPacket
    /\ UNCHANGED <<maxSize, sendVars, pc, wire, sentPackets, received, lastBuilt,
                   mSockets, mFdSockets, mSocketsMax, pollVars, ownerVars>>

CtorNext == DefaultPacket \/ NewPacket \/ NewPacketBuffer

CtorSpec == CtorInit /\ [][CtorNext]_vars

\* C6: oversize rejection.  Under every ceiling that leaves room for the
\* header (maxSize >= 4), Packet(type, data) with a type other than the empty
\* type and more than maxSize - 4 bytes of data is the empty packet and makes
\* exactly one report, ERROR_PACKET_TOO_BIG; with at most maxSize - 4 bytes of
\* data it makes no report, whatever the type.
OversizeRejection ==
    (lastOp.op = "Packet" /\ maxSize >= HeaderSize) =>
        /\ (lastOp.type # EMPTY_PACKET_TYPE /\ lastOp.len >= maxSize - HeaderSize + 1) =>
              /\ packet = EmptyPacket
              /\ reported = <<ERROR_PACKET_TOO_BIG>>
        /\ lastOp.len <= maxSize - HeaderSize => reported = <<>>

OneByteTooManyRejected ==
    /\ lastOp.op = "Packet"
    /\ maxSize = DefaultMaxSize
    /\ lastOp.type # EMPTY_PACKET_TYPE
    /\ lastOp.len = maxSize - HeaderSize + 1
    /\ packet = EmptyPacket
    /\ reported = <<ERROR_PACKET_TOO_BIG>>

\* C7, as claimed: message size invariant.  Under every ceiling, the packet
\* built by Packet() or Packet(type, data) has mSize <= maxSize, and mSize is
\* the length of its data plus 4, not that sum modulo 65536.
MessageSizeInvariant ==
    lastOp.op \in {"Packet()", "Packet"} =>
        /\ packet.mSize <= maxSize
        /\ packet.mSize = Len(packet.mData) + HeaderSize

\* C7, amended: under every ceiling of at least 4, the size of the empty
\* packet, the packet built by Packet() or Packet(type, data) has
\* mSize <= maxSize, and mSize is the length of its data plus 4.
MessageSizeUnderValidCeiling ==
    (lastOp.op \in {"Packet()", "Packet"} /\ maxSize >= HeaderSize) =>
        /\ packet.mSize <= maxSize
        /\ packet.mSize = Len(packet.mData) + HeaderSize

LargestPacketBuilt ==
    /\ lastOp.op = "Packet"
    /\ maxSize = DefaultMaxSize
    /\ packet.mType # EMPTY_PACKET_TYPE
    /\ Len(packet.mData) = maxSize - HeaderSize
    /\ packet.mSize = maxSize

\* C8: undersized buffer.  PacketBuffer(size) with size < maxSize has
\* getSize() = 0 and getCurrentSize() = 0 and reports
\* ERROR_PACKETBUFFER_TOO_SMALL; with size >= maxSize it has getSize() = size
\* and reports nothing.
UndersizedBufferReported ==
    lastOp.op = "PacketBuffer" =>
        /\ lastOp.size < maxSize =>
              /\ mSize = 0
              /\ mCurrentlyStoredBytes = 0
              /\ reported = <<ERROR_PACKETBUFFER_TOO_SMALL>>
        /\ lastOp.size >= maxSize =>
              /\ mSize = lastOp.size
              /\ reported = <<>>

\* C28: sentinel construction.  Packet(EMPTY_PACKET_TYPE, data) is the empty
\* packet, size 4 and no data, whatever data is, longer than maxSize - 4
\* included, and hands nothing to the error callback; ERROR_PACKET_TOO_BIG is
\* reported only by a call whose type is not EMPTY_PACKET_TYPE.
SentinelConstruction ==
    lastOp.op = "Packet" =>
        /\ lastOp.type = EMPTY_PACKET_TYPE =>
                /\ packet = [mType |-> EMPTY_PACKET_TYPE, mSize |-> 4, mData |-> <<>>]
                /\ reported = <<>>
        /\ reported # <<>> => lastOp.type # EMPTY_PACKET_TYPE

\* Packet(EMPTY_PACKET_TYPE, data) with data too long for the default ceiling.
SentinelWithOversizedData ==
    /\ lastOp.op = "Packet"
    /\ lastOp.type = EMPTY_PACKET_TYPE
    /\ maxSize = DefaultMaxSize
    /\ lastOp.len > maxSize - HeaderSize
    /\ packet = EmptyPacket

(***************************************************************************)
(* TcpSocket::receive on a socket whose peer sends well-formed packets     *)
(***************************************************************************)
TcpInit ==
    /\ maxSize = MaxPayload + HeaderSize
    /\ \E size \in {maxSize, 2 * maxSize} : BufferInit(size)
    /\ pc = "idle"
    /\ PacketIdle
    /\ SelectorInit

\* A receive that tests the queue before the first read: while in place of
\* do ... while.
AfterEntryTestFirst(queue) == IF queue # <<>> THEN "idle" ELSE "recv"

\* do { ... } while(...): the body is entered whatever the queue holds.
AfterEntry(queue) == "recv"

\* receive(buffer, flags) is entered.
ReceiveCall ==
    /\ pc = "idle"
    /\ pc' = AfterEntry(mStoredPackets)
    /\ reported' = <<>>
    /\ lastOp' = [op |-> "receive"]
    /\ UNCHANGED <<maxSize, sendVars, packetVars, mBuffer, mSize, mCurrentlyStoredBytes,
                   mStoredPackets, wire, sentPackets, received, lastBuilt,
                   mSockets, mFdSockets, mSocketsMax, pollVars, ownerVars>>

\* A report that does not tell a hangup from a failure.
ReportAsFailure(currentlyReceived) == ERROR_SOCKET_RECEIVE

\* The error handed to gSocketErrorFunction when a read returns
\* currentlyReceived <= 0.
ReportFor(currentlyReceived) ==
    IF currentlyReceived = 0 THEN ERROR_SOCKET_HANGUP ELSE ERROR_SOCKET_RECEIVE

\* recv returns -1.
RecvFails ==
    /\ pc = "recv"
    /\ reported' = Append(reported, ReportFor(-1))
    /\ pc' = "idle"
    /\ lastOp' = [op |-> "recv", result |-> -1]
    /\ UNCHANGED <<maxSize, sendVars, packetVars, mBuffer, mSize, mCurrentlyStoredBytes,
                   mStoredPackets, wire, sentPackets, received, lastBuilt,
                   mSockets, mFdSockets, mSocketsMax, pollVars, ownerVars>>

\* recv returns 0.
RecvHangup ==
    /\ pc = "recv"
    /\ reported' = Append(reported, ReportFor(0))
    /\ pc' = "idle"
    /\ lastOp' = [op |-> "recv", result |-> 0]
    /\ UNCHANGED <<maxSize, sendVars, packetVars, mBuffer, mSize, mCurrentlyStoredBytes,
                   mStoredPackets, wire, sentPackets, received, lastBuilt,
                   mSockets, mFdSockets, mSocketsMax, pollVars, ownerVars>>

\* A loop test that is true whatever the queue holds.
isPacketStoredAlways(queue) == TRUE

\* return !mStoredPackets.empty();
isPacketStored(queue) == queue # <<>>

\* recv(getSocket(), getBuffer() + getCurrentSize(), getSize()/2, flags)
\* returns n > 0: n bytes of the stream are written at offset
\* getCurrentSize().  When they do not fit in the buffer the write runs past
\* the end of the allocation: what follows is undefined and the model stops
\* there (pc = "ub"), with mCurrentlyStoredBytes as buildPackets first sets it.
RecvData ==
    /\ pc = "recv"
    /\ \E n \in 1..Min(mSize \div 2, Len(wire)) :
         /\ wire' = SubSeq(wire, n + 1, Len(wire))
         /\ lastOp' = [op |-> "recv", result |-> n]
         /\ IF mCurrentlyStoredBytes + n > mSize
            THEN /\ pc' = "ub"
                 /\ mBuffer' = WriteAt(mBuffer, mCurrentlyStoredBytes,
                                       SubSeq(wire, 1, mSize - mCurrentlyStoredBytes))
                 /\ mCurrentlyStoredBytes' = mCurrentlyStoredBytes + n
                 /\ UNCHANGED <<mStoredPackets, reported, lastBuilt>>
            ELSE LET b == buildPackets(
                            WriteAt(mBuffer, mCurrentlyStoredBytes, SubSeq(wire, 1, n)),
                            mCurrentlyStoredBytes, mStoredPackets, n)
                 IN /\ pc' = IF b.hung THEN "hung"
                             ELSE IF ~isPacketStored(b.mStoredPackets) THEN "recv"
                             ELSE "idle"
                    /\ mBuffer' = b.mBuffer
                    /\ mCurrentlyStoredBytes' = b.mCurrentlyStoredBytes
                    /\ mStoredPackets' = b.mStoredPackets
                    /\ reported' = reported \o b.reports
                    /\ lastBuilt' = Len(b.mStoredPackets) - Len(mStoredPackets)
    /\ UNCHANGED <<maxSize, sendVars, packetVars, mSize, sentPackets, received,
                   mSockets, mFdSockets, mSocketsMax, pollVars, ownerVars>>

TcpNext ==
    PeerSend \/ ReceiveCall \/ RecvFails \/ RecvHangup \/ RecvData \/ GetPacket

TcpSpec == TcpInit /\ [][TcpNext]_vars

\* C5: compaction / no-overflow invariant.  Whatever the capacity >= maxSize
\* of the buffer, across any sequence of receive calls and getPacket calls the
\* buffer never holds more than getSize() bytes and no recv writes past the end
\* of the buffer.
NoOverflow ==
    /\ mCurrentlyStoredBytes <= mSize
    /\ pc # "ub"

\* The same, for a buffer of twice the ceiling.
NoOverflowWhenDoubled ==
    mSize >= 2 * maxSize => NoOverflow

\* C16: peer hangup.  A recv that returns 0 makes receive report
\* ERROR_SOCKET_HANGUP, once, and no ERROR_SOCKET_RECEIVE, and return at once:
\* no further recv, no buildPackets call, so the buffer, getCurrentSize() and
\* the queue of built packets are as before the read.
PeerHangup ==
    /\ []((lastOp.op = "recv" /\ lastOp.result = 0) =>
            /\ pc = "idle"
            /\ reported = <<ERROR_SOCKET_HANGUP>>)
    /\ [][(pc = "recv" /\ lastOp'.op = "recv" /\ lastOp'.result = 0) =>
            /\ pc' = "idle"
            /\ reported' = Append(reported, ERROR_SOCKET_HANGUP)
            /\ UNCHANGED <<mBuffer, mSize, mCurrentlyStoredBytes, mStoredPackets,
                           wire, lastBuilt>>]_vars

\* The hangup comes in the middle of a packet, after a read that brought data
\* but no complete packet.
HangupInMidPacket ==
    /\ lastOp.op = "recv"
    /\ lastOp.result = 0
    /\ pc = "idle"
    /\ mCurrentlyStoredBytes > 0
    /\ mStoredPackets = <<>>
    /\ reported = <<ERROR_SOCKET_HANGUP>>

\* C25: exit of the stream receive.  receive returns either with a packet
\* in the queue and nothing reported, or after exactly one report,
\* ERROR_SOCKET_RECEIVE or ERROR_SOCKET_HANGUP, of the read that failed; never
\* with an empty queue and no report.  Every read that brings bytes is followed
\* by buildPackets on those bytes before the next read or the return.
ReceiveExit ==
    /\ [][(pc = "recv" /\ pc' = "idle") =>
            \/ /\ lastOp'.result > 0
               /\ mStoredPackets' # <<>>
               /\ reported' = <<>>
            \/ /\ lastOp'.result <= 0
               /\ reported' = <<ReportFor(lastOp'.result)>>]_vars
    /\ [][(pc = "recv" /\ pc' = "recv" /\ Len(wire') < Len(wire)) =>
            mStoredPackets' = <<>> /\ reported' = <<>>]_vars
    /\ [][(pc = "recv" /\ pc' \in {"recv", "idle"}
              /\ sentPackets' = sentPackets
              /\ lastOp'.op = "recv" /\ lastOp'.result > 0) =>
            LET n == lastOp'.result
                b == buildPackets(WriteAt(mBuffer, mCurrentlyStoredBytes, SubSeq(wire, 1, n)),
                                  mCurrentlyStoredBytes, mStoredPackets, n)
            IN /\ wire' = SubSeq(wire, n + 1, Len(wire))
               /\ mBuffer' = b.mBuffer
               /\ mCurrentlyStoredBytes' = b.mCurrentlyStoredBytes
               /\ mStoredPackets' = b.mStoredPackets]_vars

\* receive returns with the first packet of the stream, completed by a read
\* of one byte after reads that completed none.
ReturnedAfterSeveralReads ==
    /\ pc = "idle"
    /\ lastOp.op = "recv"
    /\ lastOp.result = 1
    /\ reported = <<>>
    /\ received = <<>>
    /\ Len(mStoredPackets) = 1
    /\ lastBuilt = 1

(***************************************************************************)
(* Selector: add, remove, removeAll                                        *)
(***************************************************************************)
\* The caller holds one socket for every descriptor and keeps it; the
\* Selector is constructed without vectors.
SelectorOnly ==
    /\ maxSize = DefaultMaxSize
    /\ NoBuffer
    /\ pc = "selector"
    /\ PacketIdle
    /\ Selector(nullptr, nullptr, nullptr)
    /\ lastOp = [op |-> "none", fd |-> 0]
    /\ handles = [fd \in Fds |-> 1]
    /\ closed = [fd \in Fds |-> 0]
    /\ SendIdle

\* A search with an operator== that finds every socket equal: it stops at
\* the first tracked copy.
FindFirstCopy(sockets, fd) == IF sockets = <<>> THEN 0 ELSE 1

\* Index of the first tracked copy that compares equal to the socket (equal
\* descriptors), 0 when there is none.
Find(sockets, fd) ==
    IF fd \in Range(sockets)
    THEN CHOOSE i \in 1..Len(sockets) :
            sockets[i] = fd /\ \A j \in 1..(i - 1) : sockets[j] # fd
    ELSE 0

\* An erase that moves the last element into the place of the erased one.
EraseSwapLast(sockets, i) ==
    IF i = 0 THEN sockets
    ELSE SubSeq([sockets EXCEPT ![i] = sockets[Len(sockets)]], 1, Len(sockets) - 1)

\* mSockets.erase(i)
Erase(sockets, i) ==
    IF i = 0 THEN sockets
    ELSE SubSeq(sockets, 1, i - 1) \o SubSeq(sockets, i + 1, Len(sockets))

\* for(auto& i : mSockets) if(i->getSocket() > mSocketsMax) mSocketsMax = ...
RECURSIVE Rescan(_, _)
Rescan(sockets, max) ==
    IF sockets = <<>> THEN max
    ELSE Rescan(Tail(sockets), IF Head(sockets) > max THEN Head(sockets) ELSE max)

\* A remove that resets mSocketsMax but never scans the remaining sockets.
MaxAfterRemoveNoScan(sockets, max, fd) ==
    IF Find(sockets, fd) # 0 /\ fd = max THEN 0 ELSE max

\* mSocketsMax when remove(sock) returns: reset to 0 when the erased copy held
\* it, then recomputed from the remaining copies when it is 0.
MaxAfterRemove(sockets, max, fd) ==
    LET reset == IF Find(sockets, fd) # 0 /\ fd = max THEN 0 ELSE max
    IN IF reset = 0 THEN Rescan(Erase(sockets, Find(sockets, fd)), 0) ELSE reset

\* Number of tracked copies that hold the descriptor.
Count(sockets, fd) == Cardinality({i \in 1..Len(sockets) : sockets[i] = fd})

\* mSocket.use_count(): the caller's Socket objects and the tracked copies
\* share one std::shared_ptr<int> per descriptor.
UseCount(sockets, held, fd) == held[fd] + Count(sockets, fd)

\* A destructor that closes the descriptor whoever else owns it.
CloseAlways(cl, useCount, fd) == [cl EXCEPT ![fd] = @ + 1]

\* ~Socket: if(mSocket.unique()) close(*mSocket);
CloseIfUnique(cl, useCount, fd) ==
    IF useCount = 1 THEN [cl EXCEPT ![fd] = @ + 1] ELSE cl

\* for(auto& i : mSockets) delete i;
RECURSIVE DeleteAll(_, _, _)
DeleteAll(sockets, held, cl) ==
    IF sockets = <<>> THEN cl
    ELSE DeleteAll(Tail(sockets), held,
                   CloseIfUnique(cl, UseCount(sockets, held, Head(sockets)), Head(sockets)))

\* What a vector of the caller holds once delete *i; mSockets.erase(i) has
\* run on the copy at position i: the code does not touch the vector, its
\* pointers to that copy dangle.
Dangle(array, i) ==
    IF i = 0 THEN array
    ELSE [array EXCEPT !.v = [k \in 1..Len(array.v) |->
                    IF array.v[k] = i THEN Freed
                    ELSE IF array.v[k] > i THEN array.v[k] - 1
                    ELSE array.v[k]]]

\* A clearTemp that leaves the vectors as they are.
clearTempSkipped(array) == array

\* A clearTemp without the tests for nullptr.
clearTempUnguarded(array) == [array EXCEPT !.v = <<>>]

\* clearTemp(), for one of the three vectors
clearTemp(array) == IF array.null THEN array ELSE Vector(<<>>)

\* An add that leaves mSocketsMax as it was.
MaxAfterAddKept(max, fd) == max

\* if(sock.getSocket() > mSocketsMax) mSocketsMax = sock.getSocket();
MaxAfterAdd(max, fd) == IF fd > max THEN fd ELSE max

add(fd) ==
    /\ mFdSockets' = mFdSockets \cup {fd}
    /\ mSockets' = Append(mSockets, fd)
    /\ mSocketsMax' = MaxAfterAdd(mSocketsMax, fd)
    /\ UNCHANGED <<mReadable, mWritable, mFaulty, mFdReadable, mFdWritable, mFdFaulty,
                   ownerVars>>

remove(fd) ==
    /\ mFdSockets' = mFdSockets \ {fd}
    /\ mSockets' = Erase(mSockets, Find(mSockets, fd))
    /\ mReadable' = Dangle(mReadable, Find(mSockets, fd))
    /\ mWritable' = Dangle(mWritable, Find(mSockets, fd))
    /\ mFaulty' = Dangle(mFaulty, Find(mSockets, fd))
    /\ closed' = IF Find(mSockets, fd) # 0
                 THEN CloseIfUnique(closed, UseCount(mSockets, handles, fd), fd)
                 ELSE closed
    /\ mSocketsMax' = MaxAfterRemove(mSockets, mSocketsMax, fd)
    /\ UNCHANGED <<mFdReadable, mFdWritable, mFdFaulty, handles>>

\* removeAll zeroes the four fd_sets, empties the caller's vectors through
\* clearTemp() and deletes every tracked copy; it does not assign mSocketsMax.
removeAll ==
    /\ mFdSockets' = {}
    /\ mFdWritable' = {}
    /\ mFdReadable' = {}
    /\ mFdFaulty' = {}
    /\ mWritable' = clearTemp(mWritable)
    /\ mReadable' = clearTemp(mReadable)
    /\ mFaulty' = clearTemp(mFaulty)
    /\ closed' = DeleteAll(mSockets, handles, closed)
    /\ mSockets' = <<>>
    /\ UNCHANGED <<mSocketsMax, handles>>

\* lastOp remembers whether a remove erased the copy holding mSocketsMax, and
\* whether the add that follows it brings a smaller descriptor.
\* add(sock), with a socket the caller holds, while fewer than limit are
\* tracked.
AddUpTo(limit) ==
    /\ Len(mSockets) < limit
    /\ \E fd \in Fds :
         /\ handles[fd] >= 1
         /\ add(fd)
         /\ lastOp' = IF lastOp.op = "remove" /\ lastOp.heldMax /\ fd < lastOp.fd
                      THEN [op |-> "add after remove", fd |-> fd, removed |-> lastOp.fd]
                      ELSE [op |-> "add", fd |-> fd]
    /\ UNCHANGED <<maxSize, sendVars, packetVars, reported, bufferVars>>

Add == AddUpTo(MaxTracked)

\* remove(sock), with a socket the caller holds or a tracked copy reached
\* through getAll() or one of the vectors.
Remove ==
    /\ \E fd \in Fds :
         /\ handles[fd] >= 1 \/ fd \in Range(mSockets)
         /\ remove(fd)
         /\ lastOp' = [op |-> "remove", fd |-> fd,
                       heldMax |-> Find(mSockets, fd) # 0 /\ fd = mSocketsMax]
    /\ UNCHANGED <<maxSize, sendVars, packetVars, reported, bufferVars>>

RemoveAll ==
    /\ removeAll
    /\ lastOp' = [op |-> "removeAll"]
    /\ UNCHANGED <<maxSize, sendVars, packetVars, reported, bufferVars>>

SelectorNext == Add \/ Remove \/ RemoveAll

SelectorSpec == SelectorOnly /\ [][SelectorNext]_vars

\* C9: highest-descriptor invariant.  After any sequence of add, remove and
\* removeAll, mSocketsMax is the largest descriptor among the tracked sockets,
\* or 0 when none is tracked.
HighestDescriptorInvariant ==
    mSocketsMax = SetMax(Range(mSockets))

\* C10: descriptor reuse after removal.  When remove has erased the tracked
\* socket holding mSocketsMax and a socket with a smaller descriptor is added
\* next, mSocketsMax is the largest descriptor among the remaining and the
\* added sockets, and it is the removed descriptor only if a remaining socket
\* still has it.
DescriptorReuseAfterRemoval ==
    lastOp.op = "add after remove" =>
        /\ mSocketsMax = SetMax(Range(mSockets))
        /\ lastOp.removed \notin Range(mSockets) => mSocketsMax # lastOp.removed

SmallerAddedAfterMaxRemoved ==
    /\ lastOp.op = "add after remove"
    /\ lastOp.removed \notin Range(mSockets)
    /\ Len(mSockets) >= 2
    /\ mSocketsMax > lastOp.fd
    /\ mSocketsMax < lastOp.removed

(***************************************************************************)
(* Selector::getAll between calls of add, remove and removeAll             *)
(***************************************************************************)
\* A getAll that walks mSockets from the back.
getAllBackwards(sockets) == [i \in 1..Len(sockets) |-> Len(sockets) + 1 - i]

\* std::vector<Socket*> temp; for(auto& i : mSockets) temp.push_back(i);
\* A Socket* is the position in mSockets of the copy it points to.
getAll(sockets) == [i \in 1..Len(sockets) |-> i]

GetAll ==
    /\ lastOp' = [op |-> "getAll", result |-> getAll(mSockets), after |-> lastOp.op]
    /\ UNCHANGED <<maxSize, sendVars, packetVars, reported, bufferVars, mSockets,
                   mFdSockets, mSocketsMax, pollVars, ownerVars>>

\* The caller changes the vector getAll() returned: drops its first pointer.
ModifyCopy ==
    /\ lastOp.op = "getAll"
    /\ lastOp.result # <<>>
    /\ lastOp' = [op |-> "copy modified", result |-> Tail(lastOp.result)]
    /\ UNCHANGED <<maxSize, sendVars, packetVars, reported, bufferVars, mSockets,
                   mFdSockets, mSocketsMax, pollVars, ownerVars>>

GetAllNext == SelectorNext \/ GetAll \/ ModifyCopy

GetAllSpec == SelectorOnly /\ [][GetAllNext]_vars

\* C30: order of getAll.  getAll() returns one pointer per tracked copy, in
\* the order of mSockets, which is the order in which the copies were added:
\* add puts the new copy last, remove takes one copy of the socket out and
\* leaves the others in their order.  The vector returned is the caller's:
\* neither getAll nor a change of that vector changes what is tracked.
GetAllOrder ==
    /\ [](lastOp.op = "getAll" =>
            /\ Len(lastOp.result) = Len(mSockets)
            /\ \A i \in 1..Len(mSockets) : lastOp.result[i] = i)
    /\ [][Len(mSockets') > Len(mSockets) =>
            mSockets' = mSockets \o <<lastOp'.fd>>]_vars
    /\ [][(lastOp'.op = "remove" /\ mSockets' # mSockets) =>
            \E i \in 1..Len(mSockets) :
               /\ mSockets[i] = lastOp'.fd
               /\ Len(mSockets') = Len(mSockets) - 1
               /\ \A j \in 1..Len(mSockets') :
                     mSockets'[j] = mSockets[IF j < i THEN j ELSE j + 1]]_vars
    /\ [][lastOp'.op \in {"getAll", "copy modified"} =>
            UNCHANGED <<mSockets, mFdSockets, mSocketsMax>>]_vars

\* getAll() is called right after a remove, with two sockets tracked of
\* which the one added first has the larger descriptor.
GetAllAfterRemove ==
    /\ lastOp.op = "getAll"
    /\ lastOp.after = "remove"
    /\ lastOp.result = <<1, 2>>
    /\ mSockets[1] > mSockets[2]
    /\ mFdSockets = {mSockets[1], mSockets[2]}

(***************************************************************************)
(* Selector::update: the caller's vectors and the outcome of select()      *)
(***************************************************************************)
\* What the caller hands to the constructor for each class: no vector, an
\* empty vector, or a vector that still holds an address.
CallerVectors == {nullptr, Vector(<<>>), Vector(<<Foreign>>)}

PollInit ==
    /\ maxSize = DefaultMaxSize
    /\ NoBuffer
    /\ pc = "selector"
    /\ PacketIdle
    /\ \E readable \in CallerVectors, writable \in CallerVectors, faulty \in CallerVectors :
         Selector(readable, writable, faulty)
    /\ lastOp = [op |-> "none", fd |-> 0]
    /\ handles = [fd \in Fds |-> IF fd \in 1..MaxPolled THEN 1 ELSE 0]
    /\ closed = [fd \in Fds |-> 0]
    /\ SendIdle

\* mFdReadablePointer, mFdWritablePointer, mFdFaultyPointer: the setters keep
\* each of them null exactly when the vector pointer of its class is null.
Enabled(array) == ~array.null

\* The descriptors of a set that select(nfds, ...) examines.
Queried(set, nfds) == {fd \in set : fd < nfds}

\* An fd_set after select(nfds, ...) returned: below nfds it holds the
\* descriptors the OS flagged, at and above nfds it is as it was.
Selected(set, nfds, flagged) == flagged \cup {fd \in set : fd >= nfds}

\* for(auto& i : mSockets) if(FD_ISSET(i->getSocket(), pointer)) push_back(i);
Collect(sockets, set) ==
    SelectSeq([i \in 1..Len(sockets) |-> i], LAMBDA i : sockets[i] \in set)

\* A fill that appends to what the vector held.
FillNoClear(array, sockets, set) ==
    IF array.null THEN array ELSE Vector(array.v \o Collect(sockets, set))

\* if(pointer != nullptr) { vector->clear(); for(...) ... }
Fill(array, sockets, set) ==
    IF array.null THEN array ELSE Vector(Collect(sockets, set))

\* Whether some vector of the caller holds an entry.
Stale == mReadable.v # <<>> \/ mWritable.v # <<>> \/ mFaulty.v # <<>>

\* update() when no vector is set: select is not called, -2 is returned.
UpdateUnset ==
    /\ ~Enabled(mReadable) /\ ~Enabled(mWritable) /\ ~Enabled(mFaulty)
    /\ lastOp' = [op |-> "update", result |-> -2, select |-> FALSE, stale |-> Stale]
    /\ UNCHANGED <<maxSize, sendVars, packetVars, reported, bufferVars, mSockets,
                   mFdSockets, mSocketsMax, pollVars, ownerVars>>

\* select(mSocketsMax+1, mFdReadablePointer, mFdWritablePointer,
\* mFdFaultyPointer, mTimeout) with every class passed, whatever is set.
SelectCallAll ==
    [nfds |-> mSocketsMax + 1, readfds |-> TRUE, writefds |-> TRUE, exceptfds |-> TRUE]

\* What update() passes to select: nfds, and for each class whether its set
\* is passed or a null pointer.
SelectCall ==
    [nfds |-> mSocketsMax + 1,
     readfds |-> Enabled(mReadable),
     writefds |-> Enabled(mWritable),
     exceptfds |-> Enabled(mFaulty)]

\* update() when select returns -1 or 0: the three sets are copies of
\* mFdSockets, select leaves them alone (-1) or clears what it examined of the
\* sets passed (0), and clearTemp() empties the vectors.
UpdateNothing ==
    /\ Enabled(mReadable) \/ Enabled(mWritable) \/ Enabled(mFaulty)
    /\ \E result \in {-1, 0} :
         LET call == SelectCall
             after(passed) == IF passed /\ result = 0
                              THEN Selected(mFdSockets, call.nfds, {})
                              ELSE mFdSockets
         IN /\ mFdReadable' = after(call.readfds)
            /\ mFdWritable' = after(call.writefds)
            /\ mFdFaulty' = after(call.exceptfds)
            /\ lastOp' = [op |-> "update", result |-> result, select |-> TRUE,
                          stale |-> Stale, call |-> call]
    /\ mWritable' = clearTemp(mWritable)
    /\ mReadable' = clearTemp(mReadable)
    /\ mFaulty' = clearTemp(mFaulty)
    /\ UNCHANGED <<maxSize, sendVars, packetVars, reported, bufferVars, mSockets,
                   mFdSockets, mSocketsMax, ownerVars>>

\* update() when select returns n > 0: in each class whose set was passed the
\* OS flags some of the descriptors it examined, n of them over the classes.
UpdateReady ==
    /\ Enabled(mReadable) \/ Enabled(mWritable) \/ Enabled(mFaulty)
    /\ LET call == SelectCall
           examined(passed) == IF passed THEN Queried(mFdSockets, call.nfds) ELSE {}
           after(passed, flagged) == IF passed
                                     THEN Selected(mFdSockets, call.nfds, flagged)
                                     ELSE mFdSockets
       IN \E r \in SUBSET examined(call.readfds),
             w \in SUBSET examined(call.writefds),
             f \in SUBSET examined(call.exceptfds) :
            /\ Cardinality(r) + Cardinality(w) + Cardinality(f) > 0
            /\ mFdReadable' = after(call.readfds, r)
            /\ mFdWritable' = after(call.writefds, w)
            /\ mFdFaulty' = after(call.exceptfds, f)
            /\ mWritable' = Fill(mWritable, mSockets, mFdWritable')
            /\ mReadable' = Fill(mReadable, mSockets, mFdReadable')
            /\ mFaulty' = Fill(mFaulty, mSockets, mFdFaulty')
            /\ lastOp' = [op |-> "update",
                          result |-> Cardinality(r) + Cardinality(w) + Cardinality(f),
                          select |-> TRUE, stale |-> Stale, call |-> call,
                          flagged |-> [readable |-> r, writable |-> w, faulty |-> f]]
    /\ UNCHANGED <<maxSize, sendVars, packetVars, reported, bufferVars, mSockets,
                   mFdSockets, mSocketsMax, ownerVars>>

PollAdd == AddUpTo(MaxPolled)

PollNext == PollAdd \/ Remove \/ RemoveAll \/ UpdateUnset \/ UpdateNothing \/ UpdateReady

PollSpec == PollInit /\ [][PollNext]_vars

\* The positions of the tracked copies whose descriptor is in the set.
TrackedIn(set) == {i \in 1..Len(mSockets) : mSockets[i] \in set}

\* The vector holds each tracked copy whose descriptor is in the set once, in
\* the order the copies were added, and nothing else.
HoldsExactly(array, set) ==
    /\ Range(array.v) = TrackedIn(set)
    /\ \A j \in 1..Len(array.v), k \in 1..Len(array.v) : j < k => array.v[j] < array.v[k]

\* C11: readiness partition.  When update() returns n > 0, each vector that is
\* set holds, in the order they were added, pointers to exactly the tracked
\* copies whose descriptor the OS flagged for the vector's class: no entry of a
\* previous update(), no entry the caller had put there.
ReadinessPartition ==
    (lastOp.op = "update" /\ lastOp.result > 0) =>
        /\ ~mReadable.null => HoldsExactly(mReadable, lastOp.flagged.readable)
        /\ ~mWritable.null => HoldsExactly(mWritable, lastOp.flagged.writable)
        /\ ~mFaulty.null => HoldsExactly(mFaulty, lastOp.flagged.faulty)

\* A (added first, with the larger descriptor) is readable, B is writable
\* only, nothing is faulty, and the vectors held entries before the call.
ReadableThenWritableOnly ==
    /\ lastOp.op = "update"
    /\ lastOp.result = 2
    /\ lastOp.stale
    /\ Len(mSockets) = 2
    /\ mSockets[1] > mSockets[2]
    /\ mReadable = Vector(<<1>>)
    /\ mWritable = Vector(<<2>>)
    /\ mFaulty = Vector(<<>>)

\* C12: timeout or error clears stale results.  When update() returns 0 or
\* -1, every vector that is set is empty, whatever it held before the call.
StaleResultsCleared ==
    (lastOp.op = "update" /\ lastOp.result \in {-1, 0}) =>
        /\ ~mReadable.null => mReadable.v = <<>>
        /\ ~mWritable.null => mWritable.v = <<>>
        /\ ~mFaulty.null => mFaulty.v = <<>>

TimeoutAfterEntries ==
    /\ lastOp.op = "update"
    /\ lastOp.result = 0
    /\ lastOp.stale
    /\ mSockets # <<>>
    /\ ~mReadable.null
    /\ mReadable.v = <<>>

\* C13: misconfigured update.  With no vector set, update() does not call
\* select and returns -2, a value select never returns (-1 on error, 0 on
\* timeout, n > 0 when descriptors are ready); with some vector set it calls
\* select, passing the set of exactly the classes whose vector is set.
MisconfiguredUpdate ==
    lastOp.op = "update" =>
        IF mReadable.null /\ mWritable.null /\ mFaulty.null
        THEN ~lastOp.select /\ lastOp.result = -2
        ELSE /\ lastOp.select
             /\ lastOp.result >= -1
             /\ lastOp.call.readfds = ~mReadable.null
             /\ lastOp.call.writefds = ~mWritable.null
             /\ lastOp.call.exceptfds = ~mFaulty.null

UnsetWhileTracking ==
    /\ lastOp.op = "update"
    /\ lastOp.result = -2
    /\ ~lastOp.select
    /\ mSockets # <<>>

\* Every entry of the vector points to a copy that is tracked now, or is an
\* entry the caller put there.
PointsToTracked(array) ==
    \A k \in 1..Len(array.v) : array.v[k] \in (1..Len(mSockets)) \cup {Foreign}

\* C31: output references stay valid.  After any sequence of add, remove,
\* removeAll and update calls, no entry of a vector that is set points to a
\* copy that remove has deleted; this covers a remove made from the error
\* callback while the caller walks the readable vector.
OutputReferencesValid ==
    /\ ~mReadable.null => PointsToTracked(mReadable)
    /\ ~mWritable.null => PointsToTracked(mWritable)
    /\ ~mFaulty.null => PointsToTracked(mFaulty)

\* The same at the return of update() and of removeAll().
OutputReferencesValidAfterUpdate ==
    lastOp.op \in {"update", "removeAll"} => OutputReferencesValid

\* C32: the registered set agrees with the tracked set.  After any sequence
\* of add, remove and removeAll, a descriptor is in mFdSockets exactly when
\* at least one tracked copy has it; this includes a descriptor added twice
\* and removed once.
RegisteredAgreesWithTracked ==
    mFdSockets = Range(mSockets)

\* The same for histories in which no descriptor is tracked twice at once.
RegisteredAgreesWhenTrackedOnce ==
    [][(\A fd \in Fds : Count(mSockets, fd) <= 1) =>
          (mFdSockets = Range(mSockets) => mFdSockets' = Range(mSockets'))]_vars

\* C33: the bound of the query is sufficient.  Every tracked copy has a
\* descriptor no larger than mSocketsMax, so select(mSocketsMax + 1, ...)
\* examines the descriptor of every tracked copy that is registered.
PollBoundSufficient ==
    /\ \A i \in 1..Len(mSockets) : mSockets[i] <= mSocketsMax
    /\ Queried(Range(mSockets), mSocketsMax + 1) = Range(mSockets)
    /\ (lastOp.op = "update" /\ lastOp.select) =>
          Queried(Range(mSockets), lastOp.call.nfds) = Range(mSockets)

\* update() has called select with two copies tracked and a bound left over
\* from a socket that is no longer tracked.
QueriedWithStaleBound ==
    /\ lastOp.op = "update"
    /\ lastOp.select
    /\ Len(mSockets) = 2
    /\ lastOp.call.nfds > SetMax(Range(mSockets)) + 1

\* C39: removing an untracked socket.  remove(sock) with a descriptor that no
\* tracked copy has leaves mSockets, mFdSockets, mSocketsMax and the three
\* vectors as they were and closes no descriptor.
RemoveUntracked ==
    [][(lastOp'.op = "remove" /\ lastOp'.fd \notin Range(mSockets)) =>
          UNCHANGED <<mSockets, mFdSockets, mSocketsMax, mReadable, mWritable,
                      mFaulty, closed>>]_vars

\* remove(sock) has returned without erasing a copy: as many copies are
\* tracked as can be, and the readable vector holds pointers to them.
UntrackedRemovedWhileFull ==
    /\ lastOp.op = "remove"
    /\ lastOp.fd \notin Range(mSockets)
    /\ Len(mSockets) = MaxPolled
    /\ ~mReadable.null
    /\ Len(mReadable.v) = MaxPolled

\* The same without mSocketsMax.
RemoveUntrackedButMax ==
    [][(lastOp'.op = "remove" /\ lastOp'.fd \notin Range(mSockets)) =>
          UNCHANGED <<mSockets, mFdSockets, mReadable, mWritable, mFaulty,
                      closed>>]_vars

(***************************************************************************)
(* update() between calls of setReadable, setWritable, setFaulty.  The     *)
(* caller owns one vector per class; v is what that vector holds, and null *)
(* tells whether the Selector has been given its address.                  *)
(***************************************************************************)
\* setX(array): the pointer to the vector and the pointer to the fd_set of
\* the class are set or cleared together; the vector itself is not touched.
setArray(array, given) == [array EXCEPT !.null = ~given]

SetReadable ==
    /\ \E given \in BOOLEAN :
         /\ mReadable' = setArray(mReadable, given)
         /\ lastOp' = [op |-> "setReadable", given |-> given]
    /\ UNCHANGED <<maxSize, sendVars, packetVars, reported, bufferVars, mSockets,
                   mFdSockets, mSocketsMax, mWritable, mFaulty, mFdReadable,
                   mFdWritable, mFdFaulty, ownerVars>>

SetWritable ==
    /\ \E given \in BOOLEAN :
         /\ mWritable' = setArray(mWritable, given)
         /\ lastOp' = [op |-> "setWritable", given |-> given]
    /\ UNCHANGED <<maxSize, sendVars, packetVars, reported, bufferVars, mSockets,
                   mFdSockets, mSocketsMax, mReadable, mFaulty, mFdReadable,
                   mFdWritable, mFdFaulty, ownerVars>>

SetFaulty ==
    /\ \E given \in BOOLEAN :
         /\ mFaulty' = setArray(mFaulty, given)
         /\ lastOp' = [op |-> "setFaulty", given |-> given]
    /\ UNCHANGED <<maxSize, sendVars, packetVars, reported, bufferVars, mSockets,
                   mFdSockets, mSocketsMax, mReadable, mWritable, mFdReadable,
                   mFdWritable, mFdFaulty, ownerVars>>

\* Selector(nullptr, nullptr, nullptr): no vector is set; the caller's three
\* vectors are empty.
FrameInit ==
    /\ PollInit
    /\ mReadable = nullptr /\ mWritable = nullptr /\ mFaulty = nullptr

FrameAdd == AddUpTo(MaxFramed)

FrameNext ==
    \/ FrameAdd \/ Remove \/ RemoveAll
    \/ UpdateUnset \/ UpdateNothing \/ UpdateReady
    \/ SetReadable \/ SetWritable \/ SetFaulty

FrameSpec == FrameInit /\ [][FrameNext]_vars

\* C29: frame of update().  Whatever it returns (n > 0, 0, -1, -2), update()
\* leaves mSockets, mFdSockets and mSocketsMax as they were, and leaves alone
\* the vector of every class that is not set: such a vector holds after the
\* call what it held before, and its class is not passed to select.
UpdateFrame ==
    [][lastOp'.op = "update" =>
         /\ UNCHANGED <<mSockets, mFdSockets, mSocketsMax>>
         /\ mReadable.null => (mReadable' = mReadable /\ (lastOp'.select => ~lastOp'.call.readfds))
         /\ mWritable.null => (mWritable' = mWritable /\ (lastOp'.select => ~lastOp'.call.writefds))
         /\ mFaulty.null => (mFaulty' = mFaulty /\ (lastOp'.select => ~lastOp'.call.exceptfds))]_vars

\* update() has timed out while the vector of a class that is not set holds
\* entries of an earlier update() and the vector of another class was emptied.
TimeoutWithDetachedEntries ==
    /\ lastOp.op = "update"
    /\ lastOp.result = 0
    /\ mReadable.null
    /\ mReadable.v # <<>>
    /\ Foreign \notin Range(mReadable.v)
    /\ ~mWritable.null
    /\ mSockets # <<>>

(***************************************************************************)
(* Socket objects sharing a descriptor: the caller's copies, moves,        *)
(* assignments and destructions, next to the Selector's own copies         *)
(***************************************************************************)
\* The caller has opened the sockets with descriptors 1..MaxOwned and holds
\* one Socket object for each.
Owned == 1..MaxOwned

OwnerInit ==
    /\ maxSize = DefaultMaxSize
    /\ NoBuffer
    /\ pc = "selector"
    /\ PacketIdle
    /\ Selector(nullptr, nullptr, nullptr)
    /\ lastOp = [op |-> "none", fd |-> 0]
    /\ handles = [fd \in Fds |-> IF fd \in Owned THEN 1 ELSE 0]
    /\ closed = [fd \in Fds |-> 0]
    /\ SendIdle

\* Socket(const Socket& other) = default: one more object shares mSocket.
CopyConstruct ==
    /\ \E fd \in Fds :
         /\ handles[fd] >= 1
         /\ handles[fd] < MaxHandles
         /\ handles' = [handles EXCEPT ![fd] = @ + 1]
         /\ lastOp' = [op |-> "copy", fd |-> fd]
    /\ UNCHANGED <<maxSize, sendVars, packetVars, reported, bufferVars, mSockets,
                   mFdSockets, mSocketsMax, pollVars, closed>>

\* Socket& operator=(const Socket& other) = default, on an object that holds
\* another descriptor: mSocket = other.mSocket drops the object's share of its
\* old descriptor and takes a share of the other one.  No destructor runs, so
\* nothing is closed.
CopyAssign ==
    /\ \E to \in Fds, from \in Fds :
         /\ to # from
         /\ handles[to] >= 1
         /\ handles[from] >= 1
         /\ handles[from] < MaxHandles
         /\ handles' = [handles EXCEPT ![to] = @ - 1, ![from] = @ + 1]
         /\ lastOp' = [op |-> "assign", fd |-> to, from |-> from]
    /\ UNCHANGED <<maxSize, sendVars, packetVars, reported, bufferVars, mSockets,
                   mFdSockets, mSocketsMax, pollVars, closed>>

\* Socket& operator=(Socket&& other) = default, on an object that holds
\* another descriptor: the object drops its share of its old descriptor and
\* takes over the share of other, which is left holding nothing.
MoveAssign ==
    /\ \E to \in Fds, from \in Fds :
         /\ to # from
         /\ handles[to] >= 1
         /\ handles[from] >= 1
         /\ handles' = [handles EXCEPT ![to] = @ - 1]
         /\ lastOp' = [op |-> "move assign", fd |-> to, from |-> from]
    /\ UNCHANGED <<maxSize, sendVars, packetVars, reported, bufferVars, mSockets,
                   mFdSockets, mSocketsMax, pollVars, closed>>

\* Socket(Socket&& other) = default, and swap(other), which is three moves
\* through a temporary: shares change hands between objects, and an object
\* left holding nothing closes nothing when it is destroyed (unique() is
\* false on an empty shared_ptr).
MoveOrSwap ==
    /\ \E fd \in Fds :
         /\ handles[fd] >= 1
         /\ lastOp' = [op |-> "move", fd |-> fd]
    /\ UNCHANGED <<maxSize, sendVars, packetVars, reported, bufferVars, mSockets,
                   mFdSockets, mSocketsMax, pollVars, ownerVars>>

\* ~Socket on an object of the caller's.
Destroy ==
    /\ \E fd \in Fds :
         /\ handles[fd] >= 1
         /\ closed' = CloseIfUnique(closed, UseCount(mSockets, handles, fd), fd)
         /\ handles' = [handles EXCEPT ![fd] = @ - 1]
         /\ lastOp' = [op |-> "destroy", fd |-> fd]
    /\ UNCHANGED <<maxSize, sendVars, packetVars, reported, bufferVars, mSockets,
                   mFdSockets, mSocketsMax, pollVars>>

OwnerAdd == AddUpTo(MaxOwned)

OwnerNext ==
    \/ OwnerAdd \/ Remove \/ RemoveAll
    \/ CopyConstruct \/ CopyAssign \/ MoveAssign \/ MoveOrSwap \/ Destroy

OwnerSpec == OwnerInit /\ [][OwnerNext]_vars

\* C14: close exactly once.  After any sequence of copies, assignments,
\* moves, swaps and destructions of the caller's Socket objects and of add,
\* remove and removeAll, a descriptor has been closed once if no object holds
\* it any more, and not at all while some object holds it.
ClosedExactlyOnce ==
    \A fd \in Owned :
        closed[fd] = IF UseCount(mSockets, handles, fd) = 0 THEN 1 ELSE 0

\* C15: Selector ownership.  add makes the Selector one more holder of the
\* socket's descriptor and closes nothing; remove and removeAll leave the
\* caller's objects alone, and they close a descriptor exactly when they
\* delete its last tracked copy and the caller holds no object for it.
SelectorOwnership ==
    [][\A fd \in Fds :
          LET before == Count(mSockets, fd)
              after == Count(mSockets', fd)
          IN /\ after > before =>
                  /\ UseCount(mSockets', handles', fd) = UseCount(mSockets, handles, fd) + 1
                  /\ closed' = closed
             /\ after < before =>
                  /\ handles' = handles
                  /\ closed'[fd] = closed[fd]
                        + (IF handles[fd] = 0 /\ after = 0 THEN 1 ELSE 0)
             /\ (after = before /\ handles' = handles) => closed'[fd] = closed[fd]]_vars

\* remove has closed a descriptor the caller no longer held, and left a
\* tracked descriptor the caller still holds open.
ClosedByRemove ==
    /\ lastOp.op = "remove"
    /\ handles[lastOp.fd] = 0
    /\ lastOp.fd \notin Range(mSockets)
    /\ closed[lastOp.fd] = 1
    /\ \E fd \in Range(mSockets) : handles[fd] >= 1 /\ closed[fd] = 0

(***************************************************************************)
(* UdpSocket::receive, with and without an address, on a socket whose peer *)
(* sends well-formed packets with UdpSocket::send                          *)
(***************************************************************************)
\* The datagrams of one packet: its size, its type, and its data when there
\* is any.
Datagrams(p) ==
    <<Htons(p.mSize), Htons(p.mType)>> \o (IF p.mData = <<>> THEN <<>> ELSE <<p.mData>>)

\* A packet of a peer whose Packet::maxSize is larger than the receiver's:
\* its payload alone is as long as a buffer of size bytes.
Oversized(size) ==
    [mType |-> ByteMod + 2, mSize |-> HeaderSize + size, mData |-> [i \in 1..size |-> 1]]

UdpInit ==
    /\ maxSize = MaxPayload + HeaderSize
    /\ \E size \in {maxSize, 2 * maxSize} : BufferInit(size)
    /\ pc = "idle"
    /\ PacketIdle
    /\ SelectorInit

UdpPeerSend ==
    /\ Len(sentPackets) < MaxPackets
    /\ \E p \in Messages \cup {Oversized(mSize)} :
         /\ wire' = wire \o Datagrams(p)
         /\ sentPackets' = Append(sentPackets, p)
    /\ UNCHANGED <<maxSize, sendVars, packetVars, reported, mBuffer, mSize,
                   mCurrentlyStoredBytes, mStoredPackets, received, lastBuilt, pc,
                   selectorVars>>

\* receive(buffer, address, flags) or receive(buffer, flags) is entered.
UdpReceiveCall ==
    /\ pc = "idle"
    /\ pc' \in {"recvfrom(address)", "recvfrom(0)"}
    /\ reported' = <<>>
    /\ lastOp' = [op |-> "receive"]
    /\ UNCHANGED <<maxSize, sendVars, packetVars, mBuffer, mSize, mCurrentlyStoredBytes,
                   mStoredPackets, wire, sentPackets, received, lastBuilt,
                   mSockets, mFdSockets, mSocketsMax, pollVars, ownerVars>>

\* mCurrentlyStoredBytes += receivedBytes, on a size_t.
AddStored(stored, receivedBytes) ==
    IF stored + receivedBytes < 0 THEN SizeMax ELSE stored + receivedBytes

\* receive(buffer, address, flags): recvfrom returns -1 or 0, the error is
\* reported and the call returns.
RecvFromNothing ==
    /\ pc = "recvfrom(address)"
    /\ \E result \in {-1, 0} :
         /\ reported' = Append(reported, ReportFor(result))
         /\ lastOp' = [op |-> "recvfrom", result |-> result,
                       offset |-> mCurrentlyStoredBytes, length |-> mSize]
    /\ pc' = "idle"
    /\ UNCHANGED <<maxSize, sendVars, packetVars, mBuffer, mSize, mCurrentlyStoredBytes,
                   mStoredPackets, wire, sentPackets, received, lastBuilt,
                   mSockets, mFdSockets, mSocketsMax, pollVars, ownerVars>>

\* receive(buffer, flags): recvfrom returns -1 or 0, the error is reported,
\* and the code goes on to buildPackets(currentlyReceived) and to the loop
\* test.  With -1 and an empty buffer the count wraps to SIZE_MAX and
\* buildPackets works on bytes outside the buffer (pc = "ub"); with -1 and a
\* partial packet the count loses a byte and the stream is parsed out of step
\* from there on, which the model does not follow (pc = "misaligned").
RecvFromNothingNoAddress ==
    /\ pc = "recvfrom(0)"
    /\ Len(reported) < MaxRetries
    /\ \E result \in {-1, 0} :
         /\ reported' = Append(reported, ReportFor(result)) \o
                            (IF AddStored(mCurrentlyStoredBytes, result) = SizeMax
                             THEN <<>>
                             ELSE buildPackets(mBuffer, mCurrentlyStoredBytes,
                                               mStoredPackets, result).reports)
         /\ lastOp' = [op |-> "recvfrom", result |-> result,
                       offset |-> mCurrentlyStoredBytes, length |-> mSize]
         /\ IF AddStored(mCurrentlyStoredBytes, result) = SizeMax
            THEN /\ pc' = "ub"
                 /\ mCurrentlyStoredBytes' = SizeMax
                 /\ UNCHANGED <<mBuffer, mStoredPackets, lastBuilt>>
            ELSE LET b == buildPackets(mBuffer, mCurrentlyStoredBytes, mStoredPackets,
                                       result)
                 IN /\ pc' = IF b.hung THEN "hung"
                             ELSE IF result < 0 THEN "misaligned"
                             ELSE IF b.mStoredPackets = <<>> THEN pc
                             ELSE "idle"
                    /\ mBuffer' = b.mBuffer
                    /\ mCurrentlyStoredBytes' = b.mCurrentlyStoredBytes
                    /\ mStoredPackets' = b.mStoredPackets
                    /\ lastBuilt' = Len(b.mStoredPackets) - Len(mStoredPackets)
    /\ UNCHANGED <<maxSize, sendVars, packetVars, mSize, wire, sentPackets, received,
                   mSockets, mFdSockets, mSocketsMax, pollVars, ownerVars>>

\* recvfrom(getSocket(), getBuffer() + getCurrentSize(), getSize(), ...)
\* returns n > 0, in either receive: the first n bytes of the next datagram
\* are written at offset getCurrentSize() and the rest of it is dropped.  When
\* they do not fit in the buffer the write runs past the end of the
\* allocation (pc = "ub").
RecvFromData ==
    /\ pc \in {"recvfrom(address)", "recvfrom(0)"}
    /\ wire # <<>>
    /\ LET n == Min(Len(Head(wire)), mSize) IN
         /\ n > 0
         /\ wire' = Tail(wire)
         /\ lastOp' = [op |-> "recvfrom", result |-> n,
                       offset |-> mCurrentlyStoredBytes, length |-> mSize]
         /\ IF mCurrentlyStoredBytes + n > mSize
            THEN /\ pc' = "ub"
                 /\ mBuffer' = WriteAt(mBuffer, mCurrentlyStoredBytes,
                                       SubSeq(Head(wire), 1, mSize - mCurrentlyStoredBytes))
                 /\ mCurrentlyStoredBytes' = mCurrentlyStoredBytes + n
                 /\ UNCHANGED <<mStoredPackets, reported, lastBuilt>>
            ELSE LET b == buildPackets(
                            WriteAt(mBuffer, mCurrentlyStoredBytes, SubSeq(Head(wire), 1, n)),
                            mCurrentlyStoredBytes, mStoredPackets, n)
                 IN /\ pc' = IF b.hung THEN "hung"
                             ELSE IF b.mStoredPackets = <<>> THEN pc
                             ELSE "idle"
                    /\ mBuffer' = b.mBuffer
                    /\ mCurrentlyStoredBytes' = b.mCurrentlyStoredBytes
                    /\ mStoredPackets' = b.mStoredPackets
                    /\ reported' = reported \o b.reports
                    /\ lastBuilt' = Len(b.mStoredPackets) - Len(mStoredPackets)
    /\ UNCHANGED <<maxSize, sendVars, packetVars, mSize, sentPackets, received,
                   mSockets, mFdSockets, mSocketsMax, pollVars, ownerVars>>

UdpNext ==
    \/ UdpPeerSend \/ UdpReceiveCall \/ RecvFromNothing \/ RecvFromNothingNoAddress
    \/ RecvFromData \/ GetPacket

UdpSpec == UdpInit /\ [][UdpNext]_vars

\* C17: no retry on receive failure.  In the receive with an address and in
\* the receive without one, a recvfrom that returns -1 or 0 makes the call
\* report the condition, once, and return: no further recvfrom, no
\* buildPackets call, so getCurrentSize() and the buffer are as before the read.
NoRetryOnFailure ==
    /\ []((lastOp.op = "recvfrom" /\ lastOp.result <= 0) => pc = "idle")
    /\ [][(pc \in {"recvfrom(address)", "recvfrom(0)"}
              /\ lastOp'.op = "recvfrom" /\ lastOp'.result <= 0) =>
            /\ pc' = "idle"
            /\ reported' = Append(reported, ReportFor(lastOp'.result))
            /\ UNCHANGED <<mBuffer, mCurrentlyStoredBytes, mStoredPackets>>]_vars

\* The same, for the receive with an address alone.
NoRetryWithAddress ==
    [][(pc = "recvfrom(address)" /\ lastOp'.op = "recvfrom" /\ lastOp'.result <= 0) =>
            /\ pc' = "idle"
            /\ reported' = Append(reported, ReportFor(lastOp'.result))
            /\ UNCHANGED <<mBuffer, mCurrentlyStoredBytes, mStoredPackets>>]_vars

\* C26: the datagram receive stays within the buffer.  Every recvfrom of
\* either receive writes at offset getCurrentSize() and asks for no more than
\* getSize() - getCurrentSize() bytes, so no read writes past the end of the
\* buffer and getCurrentSize() <= getSize() after the buildPackets that
\* follows, however many datagrams one call reads.
DatagramReadWithinBuffer ==
    lastOp.op = "recvfrom" =>
        /\ lastOp.offset + lastOp.length <= mSize
        /\ (lastOp.result > 0 => (pc # "ub" /\ mCurrentlyStoredBytes <= mSize))

\* The part of it that is about the bytes written, not the bytes asked for.
DatagramWrittenWithinBuffer ==
    (lastOp.op = "recvfrom" /\ lastOp.result > 0) =>
        (pc # "ub" /\ mCurrentlyStoredBytes <= mSize)

\* The same when every packet of the peer fits the receiver's ceiling.
DatagramWrittenWithinBufferWhenFitting ==
    (\A i \in 1..Len(sentPackets) : sentPackets[i] \in Messages) =>
        DatagramWrittenWithinBuffer

(***************************************************************************)
(* TcpSocket::send, UdpSocket::send and ClientSocket::connect               *)
(*                                                                         *)
(* One action per OS call.  pc is "size", "type" or "data" inside the three *)
(* loops of send; writes holds what each ::send or ::sendto has taken.     *)
(***************************************************************************)
ERROR_SOCKET_CONNECT == 111
ERROR_SOCKET_SEND == 116
SizeofSizeT == 8

SendParts == {"size", "type", "data"}
SendSockets == {"TcpSocket", "UdpSocket"}

Sendable == Messages \cup {EmptyPacket}

\* htons(3) of the host: swaps the two bytes on a little-endian host, returns
\* its argument on a big-endian one.
htons(x) ==
    IF littleEndian THEN (x % ByteMod) * ByteMod + x \div ByteMod ELSE x

RECURSIVE LowFirst(_, _)
LowFirst(value, n) ==
    IF n = 0 THEN <<>>
    ELSE <<value % ByteMod>> \o LowFirst(value \div ByteMod, n - 1)

Reverse(s) == [i \in 1..Len(s) |-> s[Len(s) + 1 - i]]

\* (char*) &sendableData: the bytes of a size_t holding value, in the order
\* the host stores them.
sendableData(value) ==
    IF littleEndian THEN LowFirst(value, SizeofSizeT)
    ELSE Reverse(LowFirst(value, SizeofSizeT))

\* The memory a loop of send reads from, and how many bytes of it the loop
\* is to send.
SendFrom(p, part) ==
    CASE part = "size" -> sendableData(htons(p.mSize))
      [] part = "type" -> sendableData(htons(p.mType))
      [] part = "data" -> p.mData

SendLength(p, part) ==
    IF part = "data" THEN Len(p.mData) ELSE SizeofUint16

\* Where send goes once the loop of part is over: the loop over the payload
\* is not entered for an empty payload.
AfterPart(p, part) ==
    CASE part = "size" -> "type"
      [] part = "type" -> IF Len(p.mData) > 0 THEN "data" ELSE "idle"
      [] part = "data" -> "idle"

\* The bytes of the writes, one after the other.
RECURSIVE Flatten(_)
Flatten(ws) ==
    IF ws = <<>> THEN <<>> ELSE Head(ws) \o Flatten(Tail(ws))

SendInit ==
    /\ maxSize = MaxPayload + HeaderSize
    /\ BufferInit(maxSize)
    /\ pc = "idle"
    /\ PacketIdle
    /\ Selector(nullptr, nullptr, nullptr)
    /\ lastOp = [op |-> "none", fd |-> 0]
    /\ handles = [fd \in Fds |-> 0]
    /\ closed = [fd \in Fds |-> 0]
    /\ littleEndian \in BOOLEAN
    /\ writes = <<>>
    /\ bytesSent = 0
    /\ bytesLeft = 0
    /\ calls = <<>>

\* ClientSocket::connect(): the status of ::connect is returned, nothing else
\* is done.
Connect ==
    /\ pc = "idle"
    /\ \E status \in {0, -1} :
         lastOp' = [op |-> "connect", result |-> status]
    /\ reported' = <<>>
    /\ UNCHANGED <<maxSize, packet, bufferVars, mSockets, mFdSockets, mSocketsMax,
                   pollVars, ownerVars, sendVars>>

\* The addresses a caller passes, and the one the socket was constructed
\* with; NoAddress for the overloads of send that take none.
Addresses == {"first", "second"}
mAddress == "stored"
NoAddress == "none"

\* TcpSocket has send(packet, flags) and send(packet); UdpSocket has these
\* and send(packet, address, flags), send(packet, address).
Arguments(socket) ==
    IF socket = "UdpSocket" THEN Addresses \cup {NoAddress} ELSE {NoAddress}

\* A send that uses the stored address whatever the caller passes.
TargetStored(socket, address) ==
    IF socket = "UdpSocket" THEN mAddress ELSE "connected"

\* Where a write of the call goes: ::send of a TcpSocket writes to the
\* connection; ::sendto of a UdpSocket is passed address.toSockaddr(), with
\* getAddress() for address in the overloads that take none.
Target(socket, address) ==
    IF socket = "UdpSocket"
    THEN (IF address = NoAddress THEN mAddress ELSE address)
    ELSE "connected"

\* send(packet, flags) of a TcpSocket or send(packet, address, flags) of a
\* UdpSocket is entered.
EnterSend(packets) ==
    /\ pc = "idle"
    /\ \E p \in packets, socket \in SendSockets :
       \E address \in Arguments(socket) :
         /\ packet' = p
         /\ lastOp' = [op |-> "send", socket |-> socket, currentlySent |-> 0,
                       address |-> address]
    /\ pc' = "size"
    /\ reported' = <<>>
    /\ writes' = <<>>
    /\ calls' = <<>>
    /\ bytesSent' = 0
    /\ bytesLeft' = SizeofUint16
    /\ UNCHANGED <<maxSize, littleEndian, mBuffer, mSize, mCurrentlyStoredBytes,
                   mStoredPackets, wire, sentPackets, received, lastBuilt,
                   mSockets, mFdSockets, mSocketsMax, pollVars, ownerVars>>

SendCall == EnterSend(Sendable)

\* Where send is after a write that returned -1.
AfterFailureRetry(part) == part

AfterFailure(part) == "idle"

\* ::send / ::sendto takes currentlySent of the bytesLeft bytes offered.
SendWrite ==
    /\ pc \in SendParts
    /\ \E currentlySent \in 1..bytesLeft :
         LET done == bytesSent + currentlySent >= SendLength(packet, pc)
             next == IF done THEN AfterPart(packet, pc) ELSE pc
         IN /\ writes' = Append(writes,
                    SubSeq(SendFrom(packet, pc), bytesSent + 1, bytesSent + currentlySent))
            /\ calls' = Append(calls, [part |-> pc,
                                       to |-> Target(lastOp.socket, lastOp.address)])
            /\ lastOp' = [lastOp EXCEPT !.currentlySent = currentlySent]
            /\ pc' = next
            /\ bytesSent' = IF done THEN 0 ELSE bytesSent + currentlySent
            /\ bytesLeft' = IF ~done THEN bytesLeft - currentlySent
                            ELSE IF next = "idle" THEN 0
                            ELSE SendLength(packet, next)
    /\ UNCHANGED <<maxSize, littleEndian, packet, reported, mBuffer, mSize,
                   mCurrentlyStoredBytes, mStoredPackets, wire, sentPackets, received,
                   lastBuilt, mSockets, mFdSockets, mSocketsMax, pollVars, ownerVars>>

\* ::send / ::sendto returns -1.
SendFails ==
    /\ pc \in SendParts
    /\ lastOp' = [lastOp EXCEPT !.currentlySent = -1]
    /\ reported' = Append(reported, ERROR_SOCKET_SEND)
    /\ pc' = AfterFailure(pc)
    /\ UNCHANGED <<maxSize, sendVars, packet, mBuffer, mSize,
                   mCurrentlyStoredBytes, mStoredPackets, wire, sentPackets, received,
                   lastBuilt, mSockets, mFdSockets, mSocketsMax, pollVars, ownerVars>>

SendNext == Connect \/ SendCall \/ SendWrite \/ SendFails

SendSpec == SendInit /\ [][SendNext]_vars

Sending(socket) == lastOp.op = "send" /\ lastOp.socket = socket

Returned(socket) == Sending(socket) /\ pc = "idle" /\ lastOp.currentlySent # -1

\* C18: stream send wire format.  Whatever the packet and however the OS
\* splits the writes (each of at least one byte), what TcpSocket::send has
\* written so far is a prefix of the big-endian size, the big-endian type and
\* the payload, and when send returns without a failed write it has written
\* all of it, each byte once.
StreamWireFormat ==
    Sending("TcpSocket") =>
        /\ Len(Flatten(writes)) <= Len(Encode(packet))
        /\ Flatten(writes) = SubSeq(Encode(packet), 1, Len(Flatten(writes)))
        /\ Returned("TcpSocket") => Flatten(writes) = Encode(packet)

\* The same on a little-endian host.
StreamWireFormatLittleEndian == littleEndian => StreamWireFormat

\* A send of a packet with a payload returns after writes of one byte each.
SentByteByByte ==
    /\ Returned("TcpSocket")
    /\ littleEndian
    /\ Len(packet.mData) = MaxPayload
    /\ Len(writes) = packet.mSize

\* C19: send abort.  In TcpSocket::send and UdpSocket::send the first write
\* that returns -1 is followed by one ERROR_SOCKET_SEND report and the return:
\* no write is added for that packet, in whichever loop the write failed.
SendAbort ==
    /\ [](lastOp.op = "send" =>
            /\ reported \in {<<>>, <<ERROR_SOCKET_SEND>>}
            /\ (reported # <<>> \/ lastOp.currentlySent = -1) =>
                   (pc = "idle" /\ reported = <<ERROR_SOCKET_SEND>>
                                /\ lastOp.currentlySent = -1))
    /\ [][(pc \in SendParts /\ lastOp'.currentlySent = -1) =>
            /\ pc' = "idle"
            /\ reported' = <<ERROR_SOCKET_SEND>>
            /\ writes' = writes]_vars
    /\ [][(lastOp.op = "send" /\ lastOp.currentlySent = -1 /\ writes' # writes) =>
            (lastOp'.op = "send" /\ lastOp'.currentlySent = 0 /\ writes' = <<>>)]_vars

\* A datagram send fails while the payload is being written, after a partial
\* write.
FailedInPayload ==
    /\ Sending("UdpSocket")
    /\ lastOp.currentlySent = -1
    /\ pc = "idle"
    /\ Len(Flatten(writes)) = HeaderSize + 1
    /\ Len(packet.mData) = MaxPayload

\* C20: connect failure reporting.  A ::connect that fails is reported with
\* ERROR_SOCKET_CONNECT, besides the status ClientSocket::connect returns.
ConnectFailureReported ==
    (lastOp.op = "connect" /\ lastOp.result = -1) =>
        reported = <<ERROR_SOCKET_CONNECT>>

\* Every write of the call took all the bytes it was offered.
AcceptedWhole ==
    \A i \in 1..Len(writes) : Len(writes[i]) = SendLength(packet, calls[i].part)

PartOrder(part) == CASE part = "size" -> 1 [] part = "type" -> 2 [] part = "data" -> 3

\* The writes of a datagram send come from the size loop, then the type
\* loop, then the payload loop, and all go to the address of the call, or to
\* the stored address when the call names none.
DatagramOrderAndTarget ==
    Sending("UdpSocket") =>
        /\ \A i \in 1..Len(calls) :
              /\ calls[i].to = (IF lastOp.address = NoAddress THEN mAddress
                                ELSE lastOp.address)
              /\ \A j \in 1..Len(calls) :
                    i < j => PartOrder(calls[i].part) <= PartOrder(calls[j].part)
        /\ Returned("UdpSocket") =>
              \A part \in SendParts :
                  (SendLength(packet, part) > 0) =
                      (\E i \in 1..Len(calls) : calls[i].part = part)

\* C27 as stated: datagram send.  The writes are issued in the order size,
\* type, payload, to one target, and a send whose writes are each accepted
\* whole makes three of them.
DatagramSend ==
    /\ DatagramOrderAndTarget
    /\ (Returned("UdpSocket") /\ AcceptedWhole) => Len(writes) = 3

\* C27, amended: the same, with three writes for a packet that has a payload
\* and two, size and type, for a packet that has none.
DatagramSendPayloadIfAny ==
    /\ DatagramOrderAndTarget
    /\ (Returned("UdpSocket") /\ AcceptedWhole) =>
            Len(writes) = (IF Len(packet.mData) > 0 THEN 3 ELSE 2)

\* A packet with a payload has been sent in three whole writes to an address
\* given in the call.
ThreeDatagramsToGivenAddress ==
    /\ Returned("UdpSocket")
    /\ AcceptedWhole
    /\ lastOp.address \in Addresses
    /\ Len(packet.mData) = MaxPayload
    /\ Len(writes) = 3

(***************************************************************************)
(* Packet::getData() and a send of the packet the caller changed           *)
(***************************************************************************)
\* packet.getData() = data, through the std::string& that the non-const
\* getData() returns: mData is assigned, mSize stays.
setData(p, data) == [p EXCEPT !.mData = data]

\* The packets a caller has after it changed the length of the payload.
Modified ==
    {setData(p, Payload(n)) : p \in Sendable, n \in 0..MaxPayload}
        \ Sendable

\* send is entered with a packet whose payload the caller has changed.
ModifiedSend == EnterSend(Modified)

ModifiedSendNext == SendNext \/ ModifiedSend

ModifiedSendSpec == SendInit /\ [][ModifiedSendNext]_vars

\* The bytes of the payload that the call has written so far.
PayloadWritten ==
    Flatten([i \in 1..Len(writes) |->
                IF calls[i].part = "data" THEN writes[i] ELSE <<>>])

\* C35: the length field matches the payload.  A packet that is handed to
\* send has getSize() = getData().size() + 4, also after the caller changed
\* the payload through getData(); the size that TcpSocket::send has written
\* is 4 more than the number of payload bytes it has written when it returns.
LengthMatchesPayload ==
    Sending("TcpSocket") =>
        /\ packet.mSize = Len(packet.mData) + HeaderSize
        /\ Returned("TcpSocket") =>
              packet.mSize = Len(PayloadWritten) + HeaderSize

\* The same for the packets the constructors make.
LengthMatchesPayloadAsConstructed ==
    packet \in Sendable => LengthMatchesPayload

(***************************************************************************)
(* Selector::update and the error callbacks                                *)
(***************************************************************************)
ERROR_SELECTOR_FAIL == 300
ERROR_SELECTOR_NO_TARGET == 302

\* C21: multiplexer error surfacing.  An update() that returns -2 (no vector
\* set) or -1 (select failed) has handed exactly one error to the error
\* callback, ERROR_SELECTOR_NO_TARGET or ERROR_SELECTOR_FAIL; an update() that
\* returns 0 or more has handed none.
UpdateErrorsReported ==
    lastOp.op = "update" =>
        reported = CASE lastOp.result = -2 -> <<ERROR_SELECTOR_NO_TARGET>>
                     [] lastOp.result = -1 -> <<ERROR_SELECTOR_FAIL>>
                     [] OTHER -> <<>>

(***************************************************************************)
(* Frames of type EMPTY_PACKET_TYPE that carry a payload                   *)
(***************************************************************************)
\* What a peer that does not use Packet can put on the wire: a header with
\* type 65535 and a size of more than 4, then the payload, which may be
\* longer than a Packet allows.
SentinelFrames ==
    {[mType |-> EMPTY_PACKET_TYPE, mSize |-> HeaderSize + n, mData |-> Payload(n)] :
        n \in 1..(MaxPayload + 1)}

SentinelPeerSend ==
    /\ \E p \in Messages \cup SentinelFrames : send(p)
    /\ UNCHANGED <<maxSize, sendVars, packetVars, reported, mBuffer, mSize,
                   mCurrentlyStoredBytes, mStoredPackets, received, lastBuilt, pc,
                   selectorVars>>

SentinelNext == SentinelPeerSend \/ Ingest \/ GetPacket

SentinelSpec == Init /\ [][SentinelNext]_vars

\* The packet that a complete frame is built into.
BuiltFrom(frame) ==
    IF frame.mType = EMPTY_PACKET_TYPE THEN EmptyPacket ELSE frame

\* C36: sentinel type on the wire.  A complete frame with type 65535 and a
\* size of more than 4 takes exactly its size out of the buffer and puts the
\* empty packet (type 65535, size 4, no data) into the queue without a
\* report; the frame after it is read from its own first byte.
SentinelOnTheWire ==
    /\ Extracted = [k \in 1..Completed |-> BuiltFrom(sentPackets[k])]
    /\ reported = <<>>
    /\ mCurrentlyStoredBytes = Fed - EndOf(Completed)
    /\ SubSeq(mBuffer, 1, mCurrentlyStoredBytes)
          = SubSeq(EncodeAll(sentPackets), EndOf(Completed) + 1, Fed)

\* One call has built the empty packet from a sentinel frame with the longest
\* payload a Packet allows and, after it, the packet of the next frame.
SentinelThenMessage ==
    /\ Len(sentPackets) >= 2
    /\ sentPackets[1].mType = EMPTY_PACKET_TYPE
    /\ Len(sentPackets[1].mData) = MaxPayload
    /\ sentPackets[2].mType # EMPTY_PACKET_TYPE
    /\ sentPackets[2].mData # <<>>
    /\ Extracted = <<EmptyPacket, sentPackets[2]>>
    /\ lastBuilt = 2

\* A sentinel frame with a payload longer than a Packet allows has been built
\* into the empty packet.
OversizedSentinelBuilt ==
    /\ Len(sentPackets) >= 1
    /\ sentPackets[1].mType = EMPTY_PACKET_TYPE
    /\ Len(sentPackets[1].mData) > maxSize - HeaderSize
    /\ Extracted = <<EmptyPacket>>

(***************************************************************************)
(* TcpSocket::receive while the peer delivers and no read fails            *)
(***************************************************************************)
\* Well-formed frames whose declared size is above Packet::maxSize: by one,
\* which a buffer of 2 * maxSize bytes holds, and above 2 * maxSize.
LongFrames ==
    {[mType |-> TypeFor(n), mSize |-> HeaderSize + n, mData |-> Payload(n)] :
        n \in {MaxPayload + 1, 2 * MaxPayload + HeaderSize + 1}}

ProgressPeerSend ==
    /\ \E p \in Messages \cup LongFrames : send(p)
    /\ UNCHANGED <<maxSize, sendVars, packetVars, reported, mBuffer, mSize,
                   mCurrentlyStoredBytes, mStoredPackets, received, lastBuilt, pc,
                   selectorVars>>

\* The calls and reads of TcpSpec without the reads that return 0 or -1.
ProgressNext == ProgressPeerSend \/ ReceiveCall \/ RecvData \/ GetPacket

\* recv blocks until the OS has bytes of the connection and then returns
\* some of them: a read that can return does.
ProgressSpec ==
    TcpInit /\ [][ProgressNext]_vars /\ WF_vars(RecvData)

\* The peer has sent a frame of which receive has not built the packet.
FramePending == Len(sentPackets) > Len(Extracted)

ReceiveProgressOfFitting ==
    (pc = "recv" /\ FramePending /\ mSize >= 2 * maxSize
                 /\ \A k \in 1..Len(sentPackets) : sentPackets[k].mSize <= maxSize)
        ~> (pc = "idle" /\ isPacketStored(mStoredPackets))

(***************************************************************************)
(* receive called while packets are stored                                 *)
(***************************************************************************)
\* The caller has one socket and one buffer: a TcpSocket, on descriptor 1,
\* or a UdpSocket, on descriptor 2.
StreamSocket == [fd \in Fds |-> IF fd = 1 THEN 1 ELSE 0]
DatagramSocket == [fd \in Fds |-> IF fd = 2 THEN 1 ELSE 0]

PendingInit ==
    /\ maxSize = MaxPayload + HeaderSize
    /\ \E size \in {maxSize, 2 * maxSize} : BufferInit(size)
    /\ pc = "idle"
    /\ PacketIdle
    /\ Selector(nullptr, nullptr, nullptr)
    /\ lastOp = [op |-> "none", fd |-> 0]
    /\ handles \in {StreamSocket, DatagramSocket}
    /\ closed = [fd \in Fds |-> 0]
    /\ SendIdle

PendingNext ==
    \/ handles = StreamSocket /\ TcpNext
    \/ handles = DatagramSocket /\ UdpNext

PendingSpec == PendingInit /\ [][PendingNext]_vars

\* Where a receive call is while it waits for recv or recvfrom.
Reading == {"recv", "recvfrom(address)", "recvfrom(0)"}

\* C38: receive with packets already stored.  TcpSocket::receive and
\* UdpSocket::receive make a read before they test isPacketStored(): a call
\* that is entered is in its read whatever the queue holds, and it returns
\* only from a read.
PendingReceiveReads ==
    /\ [](lastOp.op = "receive" => pc \in Reading)
    /\ [][(pc = "idle" /\ lastOp'.op = "receive" /\ lastOp.op # "receive") =>
            pc' \in Reading]_vars
    /\ [][(pc \in Reading /\ pc' = "idle") =>
            /\ lastOp'.op \in {"recv", "recvfrom"}
            /\ Len(wire') < Len(wire) \/ Len(reported') > Len(reported)]_vars

\* A TcpSocket::receive entered with a packet stored has returned after a
\* read that completed one more packet.
ReturnedFromReadWithPending ==
    /\ handles = StreamSocket
    /\ pc = "idle"
    /\ lastOp.op = "recv"
    /\ lastOp.result > 0
    /\ lastBuilt = 1
    /\ Len(mStoredPackets) = 2
    /\ received = <<>>

\* The same for UdpSocket::receive(buffer, address, flags).
DatagramReturnedFromReadWithPending ==
    /\ handles = DatagramSocket
    /\ pc = "idle"
    /\ lastOp.op = "recvfrom"
    /\ lastOp.result > 0
    /\ lastBuilt = 1
    /\ Len(mStoredPackets) = 2
    /\ received = <<>>

(***************************************************************************)
(* buildPackets on any content: a new buffer, a first read of any bytes,   *)
(* one buildPackets call                                                   *)
(***************************************************************************)
\* The byte values a read delivers: they make the declared sizes 0, 2, 3, 4
\* and sizes larger than the buffer.
RawBytes == {0, 2, 3, 4, ByteMod - 1}

RawInit ==
    /\ maxSize = MaxPayload + HeaderSize
    /\ \E n \in 0..maxSize :
         \E bytes \in [1..n -> RawBytes] :
            /\ mBuffer = WriteAt(PacketBuffer(maxSize).mBuffer, 0, bytes)
            /\ lastOp = [op |-> "read", receivedBytes |-> n]
    /\ mSize = maxSize
    /\ mCurrentlyStoredBytes = 0
    /\ mStoredPackets = <<>>
    /\ wire = <<>>
    /\ sentPackets = <<>>
    /\ received = <<>>
    /\ lastBuilt = 0
    /\ pc = "read"
    /\ PacketIdle
    /\ Selector(nullptr, nullptr, nullptr)
    /\ handles = [fd \in Fds |-> 0]
    /\ closed = [fd \in Fds |-> 0]
    /\ SendIdle

\* buffer.buildPackets(receivedBytes) after the read.
RawBuild ==
    /\ pc = "read"
    /\ LET b == buildPackets(mBuffer, mCurrentlyStoredBytes, mStoredPackets,
                             lastOp.receivedBytes)
       IN /\ pc' = IF b.hung THEN "hung" ELSE "built"
          /\ mBuffer' = b.mBuffer
          /\ mCurrentlyStoredBytes' = b.mCurrentlyStoredBytes
          /\ mStoredPackets' = b.mStoredPackets
          /\ reported' = b.reports
          /\ lastBuilt' = Len(b.mStoredPackets) - Len(mStoredPackets)
    /\ lastOp' = [lastOp EXCEPT !.op = "buildPackets"]
    /\ UNCHANGED <<maxSize, sendVars, packetVars, mSize, wire, sentPackets, received,
                   mSockets, mFdSockets, mSocketsMax, pollVars, ownerVars>>

RawNext == RawBuild

RawSpec == RawInit /\ [][RawNext]_vars

\* C22: header threshold.  Whatever the bytes, a buildPackets call that finds
\* fewer than 4 bytes stored returns without building a packet and with the
\* stored count as it found it.
HeaderThreshold ==
    (lastOp.op = "buildPackets" /\ lastOp.receivedBytes < HeaderSize) =>
        /\ pc = "built"
        /\ mStoredPackets = <<>>
        /\ mCurrentlyStoredBytes = lastOp.receivedBytes

\* C23: termination.  Whatever the bytes and the declared size, 0 included,
\* buildPackets returns.
BuildPacketsReturns == pc # "hung"

\* The loop fails to exit only at a declared size of 0.
HungOnlyAtSizeZero ==
    pc = "hung" =>
        /\ mCurrentlyStoredBytes >= SizeofUint16
        /\ Ntohs(mBuffer[1], mBuffer[2]) = 0


(***************************************************************************)
(* The shrink loop of buildPackets on a buffer of more than 65535 bytes    *)
(***************************************************************************)
\* How far the declared size lies below, and the stored count above, 65535.
MaxTail == 4

\* uint16_t i; i++
NextIndex(i) == (i + 1) % Uint16Mod

\* buildPackets has found a complete packet of packetSize bytes at the front
\* of stored bytes and enters the shrink loop with i = packetSize.  The buffer
\* has Packet::maxSize bytes or twice as many, as the constructor recommends;
\* the bytes are not kept, each step records the offsets it copies between.
ShrinkInit ==
    /\ maxSize = DefaultMaxSize
    /\ mSize \in {DefaultMaxSize, 2 * DefaultMaxSize}
    /\ \E packetSize \in (Uint16Mod - MaxTail)..(Uint16Mod - 1) :
         /\ mCurrentlyStoredBytes \in
               packetSize..Min(mSize, Uint16Mod - 1 + MaxTail)
         /\ lastOp = [op |-> "enter", packetSize |-> packetSize, i |-> packetSize,
                      stored |-> mCurrentlyStoredBytes, copied |-> 0]
    /\ mBuffer = <<>>
    /\ mStoredPackets = <<>>
    /\ wire = <<>>
    /\ sentPackets = <<>>
    /\ received = <<>>
    /\ lastBuilt = 0
    /\ pc = "shrink"
    /\ PacketIdle
    /\ Selector(nullptr, nullptr, nullptr)
    /\ handles = [fd \in Fds |-> 0]
    /\ closed = [fd \in Fds |-> 0]
    /\ SendIdle

\* What the loop leaves alone.
ShrinkFrame ==
    UNCHANGED <<maxSize, sendVars, packetVars, reported, mBuffer, mSize,
                mStoredPackets, lastBuilt, wire, sentPackets, received,
                mSockets, mFdSockets, mSocketsMax, pollVars, ownerVars>>

\* i < mCurrentlyStoredBytes holds and i - packetSize, computed in int, is an
\* offset of the buffer: mBuffer[i - packetSize] = mBuffer[i]; i++.
ShrinkCopy ==
    /\ pc = "shrink"
    /\ lastOp.i < mCurrentlyStoredBytes
    /\ lastOp.i - lastOp.packetSize \in 0..(mSize - 1)
    /\ lastOp' = [lastOp EXCEPT !.op = "copy",
                                !.i = NextIndex(lastOp.i),
                                !.copied = @ + 1]
    /\ UNCHANGED <<pc, mCurrentlyStoredBytes>>
    /\ ShrinkFrame

\* i < mCurrentlyStoredBytes holds and i - packetSize is negative: the store
\* goes to an address before the buffer, the behaviour is undefined.
ShrinkOutside ==
    /\ pc = "shrink"
    /\ lastOp.i < mCurrentlyStoredBytes
    /\ lastOp.i - lastOp.packetSize \notin 0..(mSize - 1)
    /\ pc' = "ub"
    /\ lastOp' = [lastOp EXCEPT !.op = "store outside"]
    /\ UNCHANGED mCurrentlyStoredBytes
    /\ ShrinkFrame

\* i < mCurrentlyStoredBytes fails: mCurrentlyStoredBytes -= packetSize.
ShrinkExit ==
    /\ pc = "shrink"
    /\ ~(lastOp.i < mCurrentlyStoredBytes)
    /\ pc' = "shrunk"
    /\ mCurrentlyStoredBytes' = mCurrentlyStoredBytes - lastOp.packetSize
    /\ lastOp' = [lastOp EXCEPT !.op = "exit"]
    /\ ShrinkFrame

ShrinkNext == ShrinkCopy \/ ShrinkOutside \/ ShrinkExit

ShrinkSpec == ShrinkInit /\ [][ShrinkNext]_vars

\* The loop has moved the bytes from packetSize up to the stored count to the
\* front, one after the other, and the stored count went down by packetSize.
ShrunkRight ==
    /\ pc # "ub"
    /\ pc = "shrink" => lastOp.i = lastOp.packetSize + lastOp.copied
    /\ pc = "shrunk" =>
          /\ lastOp.copied = lastOp.stored - lastOp.packetSize
          /\ mCurrentlyStoredBytes = lastOp.stored - lastOp.packetSize

\* C34: compaction beyond 16 bits.  In a buffer of more than 65535 bytes that
\* holds more than 65535 bytes when a complete packet is taken out, the shrink
\* loop ends, it moves the bytes from packetSize up to the stored count to
\* offset 0 without a store outside the buffer, and the stored count goes down
\* by packetSize: the 16-bit loop index does not wrap.
CompactionBeyond16Bits ==
    lastOp.stored >= Uint16Mod => ShrunkRight

\* The same for at most 65535 stored bytes.
CompactionWithin16Bits ==
    lastOp.stored < Uint16Mod => ShrunkRight

====
